---- MODULE Spec2Model ----
(***************************************************************************)
(* Real-time messaging core of the chat backend: the two in-process        *)
(* publish/subscribe registries (lib/agentSse, lib/widgetSse), the         *)
(* WhatsApp webhook's MESSAGES_UPSERT ingestion and the agent actions on   *)
(* a contact (assign / resolve / open).                                    *)
(***************************************************************************)
EXTENDS Integers, Sequences, FiniteSets, TLC

VARIABLES
    agentSubscribers,   \* agentSse: Map<orgId, Set<SubscriberCallback>>
    widgetSubscribers,  \* widgetSse: Map<contactId, Set<cb>>
    agentUnsubs,        \* the unsubscribe closures subscribeOrg has returned
    widgetUnsubs,       \* the unsubscribe closures subscribe has returned
    pubLog,             \* every publishToOrg / publish call, in call order
    deliveries,         \* every handler invocation, in invocation order
    contacts,           \* table Contact; a contact's id is its index
    messages,           \* table Message; a message's id is its index
    webhooks,           \* POST /whatsapp/webhook requests, in arrival order
    agentCalls,         \* PATCH /contacts/:id/{assign,resolve,open} requests
    streams,            \* GET /agent/sse and GET /widget/sse/:contactId requests
    widgetCalls,        \* GET and POST /widget/messages requests
    messageCalls,       \* POST /messages requests
    leadHooks,          \* POST /campaigns/facebook/webhook/:orgId requests
    campaignLeads,      \* table CampaignLead
    rawBodyOn,          \* whether requests carry request.rawBody
    assignConfig,       \* auto-assignment settings and rules of organization org1
    autoCalls,          \* processAutoAssignment invocations
    channelStatus       \* Channel.status of the WhatsApp channels, by channel id

registryVars == <<agentSubscribers, widgetSubscribers, agentUnsubs, widgetUnsubs>>

convVars == <<contacts, messages, webhooks, agentCalls>>

clientVars == <<streams, widgetCalls, messageCalls>>

leadVars == <<leadHooks, campaignLeads, rawBodyOn>>

adminVars == <<assignConfig, autoCalls, channelStatus>>

vars == <<agentSubscribers, widgetSubscribers, agentUnsubs, widgetUnsubs,
          pubLog, deliveries, contacts, messages, webhooks, agentCalls,
          streams, widgetCalls, messageCalls, leadHooks, campaignLeads,
          rawBodyOn, assignConfig, autoCalls, channelStatus>>

----------------------------------------------------------------------------
(* Bounds *)

MaxBusCalls == 4    \* subscribe and publish calls made by the bus's clients
MaxRequests == 2    \* webhook deliveries and agent calls in one behaviour
MaxClientCalls == 2 \* SSE streams, widget calls and POST /messages calls
MaxLeadHooks == 2   \* lead webhook deliveries in one behaviour
MaxDeliveries == 1  \* webhook deliveries with any kind of payload

----------------------------------------------------------------------------
(* Generic helpers: a JS Map is a function on the set of its keys, a JS Set *)
(* is a duplicate-free sequence in insertion order.                         *)

\* a null / undefined column or field
Null == "null"

MapSet(m, k, v) == [x \in (DOMAIN m) \cup {k} |-> IF x = k THEN v ELSE m[x]]

MapDelete(m, k) == [x \in (DOMAIN m) \ {k} |-> m[x]]

EmptyMap == [x \in {} |-> <<>>]

SetHas(s, e) == \E i \in 1..Len(s) : s[i] = e

\* mutant of SetAdd: a new element goes first
SetAddFirst(s, e) == IF SetHas(s, e) THEN s ELSE <<e>> \o s

SetAdd(s, e) == IF SetHas(s, e) THEN s ELSE Append(s, e)

SetDelete(s, e) == SelectSeq(s, LAMBDA x : x # e)

----------------------------------------------------------------------------
(* Identifiers *)

OrgIds == {"org1", "org2"}

\* Contact-topic keys of the widget bus; one of them is spelled like an
\* organization id (both registries are keyed by plain strings).
WidgetTopics == {"org1", "c1"}

UserIds == {"u1", "u2"}

\* The bus never reads a subscriber's userId: its clients use one.
BusUserIds == {"u1"}

\* Callback functions handed to subscribe (compared by reference in a JS Set).
Callbacks == {"cbA", "cbB"}

----------------------------------------------------------------------------
(* lib/agentSse and lib/widgetSse *)

\* mutant of Registered: the handlers of some topic, whichever was asked for
RegisteredAnyTopic(subs, topic) ==
    IF DOMAIN subs = {} THEN <<>> ELSE subs[CHOOSE t \in DOMAIN subs : TRUE]

\* subscribers.get(topic) ?? nothing
Registered(subs, topic) == IF topic \in DOMAIN subs THEN subs[topic] ELSE <<>>

\* subscribeOrg: if (!subscribers.has(orgId)) subscribers.set(orgId, new Set());
\* subscribers.get(orgId).add(subscriber)
subscribeOrg(subs, orgId, subscriber) ==
    MapSet(subs, orgId, SetAdd(Registered(subs, orgId), subscriber))

\* mutant of unsubscribeOrg: the emptied Set stays in the Map
unsubscribeOrgKeepsEmptySet(subs, orgId, subscriber) ==
    IF orgId \notin DOMAIN subs THEN subs
    ELSE MapSet(subs, orgId, SetDelete(subs[orgId], subscriber))

\* the closure subscribeOrg returns
unsubscribeOrg(subs, orgId, subscriber) ==
    IF orgId \notin DOMAIN subs THEN subs
    ELSE LET set == SetDelete(subs[orgId], subscriber)
         IN  IF Len(set) = 0 THEN MapDelete(subs, orgId)
             ELSE MapSet(subs, orgId, set)

\* subscribe: same shape, the Set holds the callback itself
subscribe(subs, contactId, cb) ==
    MapSet(subs, contactId, SetAdd(Registered(subs, contactId), cb))

\* the closure subscribe returns
unsubscribe(subs, contactId, cb) ==
    IF contactId \notin DOMAIN subs THEN subs
    ELSE LET set == SetDelete(subs[contactId], cb)
         IN  IF Len(set) = 0 THEN MapDelete(subs, contactId)
             ELSE MapSet(subs, contactId, set)

\* Set.forEach(cb => cb(event)): handlers run in insertion order; an exception
\* thrown by the handler at position `thrower` leaves forEach, so the handlers
\* after it are not called (thrower = 0: no handler throws).
Invoked(regs, thrower) ==
    IF thrower = 0 THEN regs ELSE SubSeq(regs, 1, thrower)

\* mutant of Delivered: the bus keeps the events of a topic and hands the
\* first of them to the handlers again
DeliveredReplay(bus, topic, regs, event, thrower, k) ==
    LET kept == {j \in 1..Len(pubLog) :
                    pubLog[j].bus = bus /\ pubLog[j].topic = topic}
        first == IF kept = {} THEN k
                 ELSE CHOOSE j \in kept : \A i \in kept : j <= i
    IN  [i \in 1..Len(Invoked(regs, thrower)) |->
            [pub |-> first, bus |-> bus, topic |-> topic,
             handler |-> regs[i],
             event |-> IF kept = {} THEN event ELSE pubLog[first].event]]

\* the argument each invoked handler is called with
Delivered(bus, topic, regs, event, thrower, k) ==
    [i \in 1..Len(Invoked(regs, thrower)) |->
        [pub |-> k, bus |-> bus, topic |-> topic,
         handler |-> regs[i], event |-> event]]

\* publishToOrg(orgId, event)
publishToOrg(orgId, event, thrower) ==
    LET regs == Registered(agentSubscribers, orgId)
        k    == Len(pubLog) + 1
    IN  /\ pubLog' = Append(pubLog,
               [bus |-> "agent", topic |-> orgId, event |-> event,
                registered |-> regs, thrower |-> thrower])
        /\ deliveries' = deliveries \o
               Delivered("agent", orgId, regs, event, thrower, k)

\* publish(contactId, msg)
publish(contactId, msg, thrower) ==
    LET regs == Registered(widgetSubscribers, contactId)
        k    == Len(pubLog) + 1
    IN  /\ pubLog' = Append(pubLog,
               [bus |-> "widget", topic |-> contactId, event |-> msg,
                registered |-> regs, thrower |-> thrower])
        /\ deliveries' = deliveries \o
               Delivered("widget", contactId, regs, msg, thrower, k)

----------------------------------------------------------------------------
(* The bus on its own: clients subscribe, unsubscribe and publish.          *)

NumBusCalls == Len(agentUnsubs) + Len(widgetUnsubs) + Len(pubLog)

CallSubscribeOrg ==
    \E orgId \in OrgIds, userId \in BusUserIds, cb \in Callbacks :
        LET sid == Len(agentUnsubs) + 1
            subscriber == [sid |-> sid, userId |-> userId, callback |-> cb]
        IN  /\ NumBusCalls < MaxBusCalls
            /\ agentSubscribers' = subscribeOrg(agentSubscribers, orgId, subscriber)
            /\ agentUnsubs' = Append(agentUnsubs,
                   [orgId |-> orgId, subscriber |-> subscriber, called |-> FALSE])
            /\ UNCHANGED <<clientVars, leadVars, adminVars, widgetSubscribers, widgetUnsubs, pubLog, deliveries, convVars>>

CallUnsubscribeOrg ==
    \E h \in 1..Len(agentUnsubs) :
        /\ agentSubscribers' = unsubscribeOrg(agentSubscribers,
               agentUnsubs[h].orgId, agentUnsubs[h].subscriber)
        /\ agentUnsubs' = [agentUnsubs EXCEPT ![h].called = TRUE]
        /\ UNCHANGED <<clientVars, leadVars, adminVars, widgetSubscribers, widgetUnsubs, pubLog, deliveries, convVars>>

CallPublishToOrg ==
    \E orgId \in OrgIds :
        \E thrower \in 0..Len(Registered(agentSubscribers, orgId)) :
            /\ NumBusCalls < MaxBusCalls
            /\ publishToOrg(orgId, [id |-> Len(pubLog) + 1], thrower)
            /\ UNCHANGED <<clientVars, leadVars, adminVars, registryVars, convVars>>

CallSubscribe ==
    \E contactId \in WidgetTopics, cb \in Callbacks :
        /\ NumBusCalls < MaxBusCalls
        /\ widgetSubscribers' = subscribe(widgetSubscribers, contactId, cb)
        /\ widgetUnsubs' = Append(widgetUnsubs,
               [contactId |-> contactId, cb |-> cb, called |-> FALSE])
        /\ UNCHANGED <<clientVars, leadVars, adminVars, agentSubscribers, agentUnsubs, pubLog, deliveries, convVars>>

CallUnsubscribe ==
    \E h \in 1..Len(widgetUnsubs) :
        /\ widgetSubscribers' = unsubscribe(widgetSubscribers,
               widgetUnsubs[h].contactId, widgetUnsubs[h].cb)
        /\ widgetUnsubs' = [widgetUnsubs EXCEPT ![h].called = TRUE]
        /\ UNCHANGED <<clientVars, leadVars, adminVars, agentSubscribers, agentUnsubs, pubLog, deliveries, convVars>>

CallPublish ==
    \E contactId \in WidgetTopics :
        \E thrower \in 0..Len(Registered(widgetSubscribers, contactId)) :
            /\ NumBusCalls < MaxBusCalls
            /\ publish(contactId, [id |-> Len(pubLog) + 1], thrower)
            /\ UNCHANGED <<clientVars, leadVars, adminVars, registryVars, convVars>>

\* WhatsApp channels; the webhook finds the channel by config.instanceName
Channels ==
    {[id |-> "ch1", organizationId |-> "org1", instanceName |-> "inst1"]}

\* Channel.status of each channel before any webhook was delivered
InitialChannelStatus == [c \in {ch.id : ch \in Channels} |-> "disconnected"]

\* settings of org1 with auto-assignment on, no strategy set and no rule
DefaultAssignConfig ==
    [autoAssignmentEnabled |-> TRUE, autoAssignmentStrategy |-> Null,
     rules |-> {}]

InitBus ==
    /\ agentSubscribers = EmptyMap
    /\ widgetSubscribers = EmptyMap
    /\ agentUnsubs = <<>>
    /\ widgetUnsubs = <<>>
    /\ pubLog = <<>>
    /\ deliveries = <<>>
    /\ contacts = <<>>
    /\ messages = <<>>
    /\ webhooks = <<>>
    /\ agentCalls = <<>>
    /\ streams = <<>>
    /\ widgetCalls = <<>>
    /\ messageCalls = <<>>
    /\ leadHooks = <<>>
    /\ campaignLeads = <<>>
    /\ rawBodyOn = FALSE
    /\ assignConfig = DefaultAssignConfig
    /\ autoCalls = <<>>
    /\ channelStatus = InitialChannelStatus

NextBus ==
    \/ CallSubscribeOrg
    \/ CallUnsubscribeOrg
    \/ CallPublishToOrg
    \/ CallSubscribe
    \/ CallUnsubscribe
    \/ CallPublish

SpecBus == InitBus /\ [][NextBus]_vars

----------------------------------------------------------------------------
(* Storage and request inputs of the conversation routes *)

Instances == {ch.instanceName : ch \in Channels}

ChannelByInstance(inst) == CHOOSE ch \in Channels : ch.instanceName = inst

\* member rows (organizationId, userId)
Members == {<<"org1", "u1">>, <<"org2", "u2">>}

RemoteJids == {"5511999990000@s.whatsapp.net"}

MessageKeyIds == {"m1", "m2"}

ConvStatuses == {"open", "pending", "resolved"}

\* values of Contact.assignedToId and of the assign body
Assignees == {Null, "u1"}

AgentActions == {"assign", "resolve", "open"}

\* what a handler holds of a contact row after reading or writing it
NoContact ==
    [id |-> 0, convStatus |-> Null, assignedToId |-> Null,
     externalId |-> Null, channelId |-> Null, phone |-> Null, name |-> <<>>]

Snapshot(c) ==
    [id |-> c, convStatus |-> contacts[c].convStatus,
     assignedToId |-> contacts[c].assignedToId,
     externalId |-> contacts[c].externalId,
     channelId |-> contacts[c].channelId, phone |-> contacts[c].phone,
     name |-> contacts[c].name]

NoKey == [remoteJid |-> Null, fromMe |-> FALSE, id |-> Null]

\* a finished request keeps only its HTTP status
WebhookDone(code) ==
    [pc |-> "done", key |-> NoKey, pushName |-> <<>>, msgType |-> Null,
     content |-> "", channelId |-> Null, organizationId |-> Null,
     contact |-> NoContact, isNewContact |-> FALSE, savedMsg |-> 0,
     reply |-> code]

AgentDone(code) ==
    [pc |-> "done", action |-> Null, id |-> 0, assignedToId |-> Null,
     orgId |-> Null, userId |-> Null, contact |-> NoContact, reply |-> code]

NumRequests == Len(webhooks) + Len(agentCalls) + Len(autoCalls)

----------------------------------------------------------------------------
(* POST /whatsapp/webhook, event MESSAGES_UPSERT.  Every await of the       *)
(* handler is a step of its own: other requests run between them.           *)

\* prisma.contact.findFirst({ where: { organizationId, externalId: remoteJid } })
ContactsByExternalId(orgId, jid) ==
    {c \in 1..Len(contacts) :
        /\ contacts[c].organizationId = orgId
        /\ contacts[c].externalId = jid}

\* The message object of the payload holds one field per kind of message;
\* a field that is absent from the record is undefined in the payload.
Has(rec, field) == field \in DOMAIN rec

\* rec?.field ?? ''
TextOf(rec, field) == IF Has(rec, field) THEN rec[field] ELSE ""

\* the payload of a plain text message
TextPayloads == {[conversation |-> "hi"]}

MessagePayloads ==
    TextPayloads \cup
    {[conversation |-> ""],
     [extendedTextMessage |-> [text |-> "hi"]],
     [extendedTextMessage |-> [text |-> ""]],
     [imageMessage |-> [mimetype |-> "image/jpeg"]],
     [imageMessage |-> [mimetype |-> "image/jpeg", caption |-> "cap"]],
     [conversation |-> "", imageMessage |-> [mimetype |-> "image/jpeg"]],
     [videoMessage |-> [mimetype |-> "video/mp4"]],
     [audioMessage |-> [mimetype |-> "audio/ogg"]],
     [documentMessage |-> [mimetype |-> "application/pdf"]],
     [documentMessage |-> [mimetype |-> "application/pdf", fileName |-> "a.pdf"]],
     [stickerMessage |-> [mimetype |-> "image/webp"]],
     [locationMessage |-> [degreesLatitude |-> 0]],
     [contactMessage |-> [displayName |-> "Bia"]],
     [reactionMessage |-> [text |-> ""]],
     [protocolMessage |-> [type |-> 0]],
     [senderKeyDistributionMessage |-> [groupId |-> "g"]]}

\* the if / else-if chain that sets content and msgType
Detect(msg) ==
    IF Has(msg, "conversation") /\ msg.conversation # ""
    THEN [content |-> msg.conversation, msgType |-> "text"]
    ELSE IF Has(msg, "extendedTextMessage")
            /\ TextOf(msg.extendedTextMessage, "text") # ""
    THEN [content |-> msg.extendedTextMessage.text, msgType |-> "text"]
    ELSE IF Has(msg, "imageMessage")
    THEN [content |-> TextOf(msg.imageMessage, "caption"), msgType |-> "image"]
    ELSE IF Has(msg, "videoMessage")
    THEN [content |-> TextOf(msg.videoMessage, "caption"), msgType |-> "video"]
    ELSE IF Has(msg, "audioMessage")
    THEN [content |-> "", msgType |-> "audio"]
    ELSE IF Has(msg, "documentMessage")
    THEN [content |-> TextOf(msg.documentMessage, "fileName"),
          msgType |-> "document"]
    ELSE IF Has(msg, "stickerMessage")
    THEN [content |-> "", msgType |-> "sticker"]
    ELSE IF Has(msg, "locationMessage")
    THEN [content |-> "[Localizacao]", msgType |-> "text"]
    ELSE IF Has(msg, "contactMessage")
    THEN [content |-> "[Contato]", msgType |-> "text"]
    ELSE IF Has(msg, "reactionMessage")
    THEN [content |-> "[Reacao: " \o TextOf(msg.reactionMessage, "text") \o "]",
          msgType |-> "text"]
    ELSE [content |-> "", msgType |-> "text"]

\* const isMedia = ['image', 'audio', 'video', 'document', 'sticker'].includes(msgType)
isMedia(msgType) ==
    msgType \in {"image", "audio", "video", "document", "sticker"}

\* mutant of Ingested: every message of an individual chat is processed
IngestedAlways(d) == TRUE

\* if (content || isMedia)
Ingested(d) == d.content # "" \/ isMedia(d.msgType)

\* pushName of the payload; the empty sequence stands for a pushName that is
\* absent or empty, which the handler's tests treat alike
PushNames == {<<>>, <<"B", "o", "b">>}

\* if (!fromMe && pushName && pushName !== contact.name)
UpdatesName(fromMe, pushName, name) ==
    ~fromMe /\ pushName # <<>> /\ pushName # name

\* the handler's state once findFirst has answered: the contact it found
\* (c = 0: none, the handler goes on to create one)
AfterFindContact(channel, key, c, pushName, d) ==
    [pc |-> IF c = 0 THEN "createContact"
            ELSE IF UpdatesName(key.fromMe, pushName, contacts[c].name)
                 THEN "updateName"
                 ELSE "createMessage",
     key |-> key, pushName |-> pushName, msgType |-> d.msgType,
     content |-> d.content, channelId |-> channel.id,
     organizationId |-> channel.organizationId,
     contact |-> IF c = 0 THEN NoContact ELSE Snapshot(c),
     isNewContact |-> FALSE, savedMsg |-> 0, reply |-> 0]

\* A request arrives with a message of an individual chat that is processed;
\* the channel is found by instance name (channel configs do not change, so
\* that read is part of this step) and the contact is looked up.  findFirst
\* has no orderBy: with several matching rows it may return any of them.
WaArrive(payloads, pushNames, keyIds) ==
    /\ \E inst \in Instances, jid \in RemoteJids, fromMe \in BOOLEAN,
          id \in keyIds, msg \in payloads, pushName \in pushNames :
          LET channel == ChannelByInstance(inst)
              key     == [remoteJid |-> jid, fromMe |-> fromMe, id |-> id]
              found   == ContactsByExternalId(channel.organizationId, jid)
          IN  /\ Ingested(Detect(msg))
              /\ \E c \in IF found = {} THEN {0} ELSE found :
                    webhooks' = Append(webhooks,
                        AfterFindContact(channel, key, c, pushName, Detect(msg)))
    /\ UNCHANGED <<clientVars, leadVars, adminVars, registryVars, pubLog, deliveries, contacts, messages, agentCalls>>

\* the conversation routes are exercised with text messages without pushName
WaReceive ==
    /\ NumRequests < MaxRequests
    /\ WaArrive(TextPayloads, {<<>>}, MessageKeyIds)

\* the characters of a JID
JidChars(jid) ==
    CASE jid = "5511999990000@s.whatsapp.net" ->
            <<"5", "5", "1", "1", "9", "9", "9", "9", "9", "0", "0", "0", "0",
              "@", "s", ".", "w", "h", "a", "t", "s", "a", "p", "p", ".",
              "n", "e", "t">>

\* text.split(sep)[0]: the characters before the first separator
RECURSIVE SplitHead(_, _)
SplitHead(chars, sep) ==
    IF chars = <<>> \/ Head(chars) = sep THEN <<>>
    ELSE <<Head(chars)>> \o SplitHead(Tail(chars), sep)

\* const rawNumber = remoteJid.split('@')[0]
rawNumber(jid) == SplitHead(JidChars(jid), "@")

\* mutant of PhoneOf: the number is stored without the plus sign
PhoneOfNoPlus(jid) ==
    IF rawNumber(jid) # <<>> THEN rawNumber(jid) ELSE Null

\* phone: rawNumber ? `+${rawNumber}` : undefined
PhoneOf(jid) ==
    IF rawNumber(jid) # <<>> THEN <<"+">> \o rawNumber(jid) ELSE Null

\* mutant of contactName: the sender's pushName is used whatever the direction
contactNameAnyDirection(fromMe, pushName, jid) ==
    IF pushName # <<>> THEN pushName
    ELSE IF rawNumber(jid) # <<>> THEN rawNumber(jid)
    ELSE <<"D", "e", "s", "c", "o", "n", "h", "e", "c", "i", "d", "o">>

\* const contactName = fromMe ? (rawNumber || 'Contato')
\*                            : (pushName || rawNumber || 'Desconhecido')
contactName(fromMe, pushName, jid) ==
    IF fromMe
    THEN IF rawNumber(jid) # <<>> THEN rawNumber(jid)
         ELSE <<"C", "o", "n", "t", "a", "t", "o">>
    ELSE IF pushName # <<>> THEN pushName
    ELSE IF rawNumber(jid) # <<>> THEN rawNumber(jid)
    ELSE <<"D", "e", "s", "c", "o", "n", "h", "e", "c", "i", "d", "o">>

\* prisma.contact.create({ data: { ..., convStatus: 'pending' } })
NewContactRow(w) ==
    [organizationId |-> w.organizationId, channelId |-> w.channelId,
     externalId |-> w.key.remoteJid, convStatus |-> "pending",
     assignedToId |-> Null, phone |-> PhoneOf(w.key.remoteJid),
     name |-> contactName(w.key.fromMe, w.pushName, w.key.remoteJid)]

WaCreateContact(r) ==
    LET w == webhooks[r]
    IN  /\ w.pc = "createContact"
        /\ contacts' = Append(contacts, NewContactRow(w))
        /\ webhooks' = [webhooks EXCEPT
               ![r].contact = [id |-> Len(contacts) + 1,
                               convStatus |-> "pending", assignedToId |-> Null,
                               externalId |-> w.key.remoteJid,
                               channelId |-> w.channelId,
                               phone |-> contacts'[Len(contacts')].phone,
                               name |-> contacts'[Len(contacts')].name],
               ![r].isNewContact = TRUE,
               ![r].pc = "createMessage"]
        /\ UNCHANGED <<clientVars, leadVars, adminVars, registryVars, pubLog, deliveries, messages, agentCalls>>

\* prisma.contact.update({ where: { id: contact.id }, data: { name: pushName } })
\* and contact.name = pushName
WaUpdateName(r) ==
    LET w == webhooks[r]
    IN  /\ w.pc = "updateName"
        /\ contacts' = [contacts EXCEPT ![w.contact.id].name = w.pushName]
        /\ webhooks' = [webhooks EXCEPT ![r].contact.name = w.pushName,
                                        ![r].pc = "createMessage"]
        /\ UNCHANGED <<clientVars, leadVars, adminVars, registryVars, pubLog, deliveries, messages, agentCalls>>

\* prisma.message.create({ data: { ..., externalId: key.id } })
NewMessageRow(w) ==
    [organizationId |-> w.organizationId, contactId |-> w.contact.id,
     channelId |-> w.channelId,
     direction |-> IF w.key.fromMe THEN "outbound" ELSE "inbound",
     type |-> w.msgType, content |-> w.content, externalId |-> w.key.id]

CreateMessage(rows, w) == Append(rows, NewMessageRow(w))

WaCreateMessage(r) ==
    LET w == webhooks[r]
    IN  /\ w.pc = "createMessage"
        /\ messages' = CreateMessage(messages, w)
        /\ webhooks' = [webhooks EXCEPT ![r].savedMsg = Len(messages'),
                                        ![r].pc = "publishMessage"]
        /\ UNCHANGED <<clientVars, leadVars, adminVars, registryVars, pubLog, deliveries, contacts, agentCalls>>

\* the new_message event; the contact summary is spread in for a new contact
NewMessageEvent(w) ==
    LET base == [type |-> "new_message", contactId |-> w.contact.id,
                 channelId |-> w.channelId, externalId |-> w.contact.externalId,
                 contactName |-> w.contact.name,
                 message |-> [id |-> w.savedMsg,
                              direction |-> IF w.key.fromMe THEN "outbound"
                                            ELSE "inbound",
                              type |-> w.msgType, content |-> w.content]]
    IN  IF w.isNewContact
        THEN [type |-> base.type, contactId |-> base.contactId,
              channelId |-> base.channelId, externalId |-> base.externalId,
              contactName |-> base.contactName,
              message |-> base.message,
              contact |-> [id |-> w.contact.id,
                           name |-> w.contact.name,
                           phone |-> w.contact.phone,
                           externalId |-> w.contact.externalId,
                           channelId |-> w.contact.channelId,
                           convStatus |-> "pending"]]
        ELSE base

\* if (!fromMe && !isNewContact)
UpdatesStatus(w) == ~w.key.fromMe /\ ~w.isNewContact

WaPublishMessage(r) ==
    LET w == webhooks[r]
    IN  /\ w.pc = "publishMessage"
        /\ publishToOrg(w.organizationId, NewMessageEvent(w), 0)
        /\ webhooks' = IF UpdatesStatus(w)
                       THEN [webhooks EXCEPT ![r].pc = "updateStatus"]
                       ELSE [webhooks EXCEPT ![r] = WebhookDone(200)]
        /\ UNCHANGED <<clientVars, leadVars, adminVars, registryVars, contacts, messages, agentCalls>>

\* mutant of needsStatusUpdate: an unset status is not taken for resolved
needsStatusUpdateResolvedOnly(contact) == contact.convStatus = "resolved"

\* const needsStatusUpdate = !contact.convStatus || contact.convStatus === 'resolved'
needsStatusUpdate(contact) ==
    contact.convStatus = Null \/ contact.convStatus = "resolved"

\* mutant of newStatus: every inbound message resets the status
newStatusAlwaysPending(contact) == "pending"

\* const newStatus = needsStatusUpdate ? 'pending' : contact.convStatus
newStatus(contact) ==
    IF needsStatusUpdate(contact) THEN "pending" ELSE contact.convStatus

\* mutant of InboundUpdate: the inbound write also clears the assignment
InboundUpdateClearsAssignee(row, status) ==
    [row EXCEPT !.convStatus = status, !.assignedToId = Null]

\* prisma.contact.update({ where: { id }, data: { convStatus: newStatus } })
InboundUpdate(row, status) == [row EXCEPT !.convStatus = status]

WaUpdateStatus(r) ==
    LET w == webhooks[r]
    IN  /\ w.pc = "updateStatus"
        /\ contacts' = [contacts EXCEPT
               ![w.contact.id] = InboundUpdate(@, newStatus(w.contact))]
        /\ webhooks' = IF needsStatusUpdate(w.contact)
                       THEN [webhooks EXCEPT ![r].pc = "publishConv"]
                       ELSE [webhooks EXCEPT ![r] = WebhookDone(200)]
        /\ UNCHANGED <<clientVars, leadVars, adminVars, registryVars, pubLog, deliveries, messages, agentCalls>>

\* the conv_updated event of the inbound path
InboundConvEvent(w) ==
    [type |-> "conv_updated", contactId |-> w.contact.id,
     convStatus |-> "pending", assignedToId |-> w.contact.assignedToId]

WaPublishConv(r) ==
    LET w == webhooks[r]
    IN  /\ w.pc = "publishConv"
        /\ publishToOrg(w.organizationId, InboundConvEvent(w), 0)
        /\ webhooks' = [webhooks EXCEPT ![r] = WebhookDone(200)]
        /\ UNCHANGED <<clientVars, leadVars, adminVars, registryVars, contacts, messages, agentCalls>>

----------------------------------------------------------------------------
(* PATCH /contacts/:id/assign, /resolve, /open                              *)

\* requireAuth answers 403 when the domain's organization is found and the
\* session user is no member of it; the handler answers 400 when no
\* organization was detected and 403 when member.findFirst finds nothing.
\* The member table does not change, so these reads are part of the arrival.
AuthReply(orgId, userId) ==
    IF orgId = Null THEN 400
    ELSE IF <<orgId, userId>> \notin Members THEN 403
    ELSE 0

\* mutant of AssignUpdate: assigning also opens the conversation
AssignUpdateOpens(row, assignedToId) ==
    [row EXCEPT !.assignedToId = assignedToId, !.convStatus = "open"]

\* data: { assignedToId: assignedToId ?? null }
AssignUpdate(row, assignedToId) == [row EXCEPT !.assignedToId = assignedToId]

\* mutant of ResolveUpdate: the assignment is left in place
ResolveUpdateKeepsAssignee(row) == [row EXCEPT !.convStatus = "resolved"]

\* data: { convStatus: 'resolved', assignedToId: null }
ResolveUpdate(row) ==
    [row EXCEPT !.convStatus = "resolved", !.assignedToId = Null]

\* mutant of OpenUpdate: opening also clears the assignment
OpenUpdateClearsAssignee(row) ==
    [row EXCEPT !.convStatus = "open", !.assignedToId = Null]

\* data: { convStatus: 'open' }
OpenUpdate(row) == [row EXCEPT !.convStatus = "open"]

AgentWrite(action, assignedToId, row) ==
    CASE action = "assign"  -> AssignUpdate(row, assignedToId)
      [] action = "resolve" -> ResolveUpdate(row)
      [] action = "open"    -> OpenUpdate(row)

\* the handler's state once contact.update has answered with the selected row
AfterUpdate(action, id, assignedToId, orgId, userId, row) ==
    [pc |-> "publish", action |-> action, id |-> id,
     assignedToId |-> assignedToId, orgId |-> orgId, userId |-> userId,
     contact |-> [id |-> id, convStatus |-> row.convStatus,
                  assignedToId |-> row.assignedToId,
                  externalId |-> row.externalId, channelId |-> row.channelId],
     reply |-> 0]

AgentInputs ==
    {in \in [action : AgentActions, assignedToId : Assignees,
             userId : UserIds, orgId : OrgIds \cup {Null}] :
        in.action # "assign" => in.assignedToId = Null}

\* A call that passes the checks: prisma.contact.update({ where: { id }, ... })
\* finds the row by id alone, whatever organization it belongs to.
AgentUpdate ==
    /\ NumRequests < MaxRequests
    /\ \E in \in AgentInputs, id \in 1..Len(contacts) :
          /\ AuthReply(in.orgId, in.userId) = 0
          /\ contacts' = [contacts EXCEPT
                 ![id] = AgentWrite(in.action, in.assignedToId, @)]
          /\ agentCalls' = Append(agentCalls,
                 AfterUpdate(in.action, id, in.assignedToId, in.orgId,
                             in.userId, contacts'[id]))
    /\ UNCHANGED <<clientVars, leadVars, adminVars, registryVars, pubLog, deliveries, messages, webhooks>>

\* A call answered 400 or 403 by the checks, or 500 because update found no
\* row with that id: nothing is written and nothing is published.
RejectedInputs ==
    {<<in, id>> \in AgentInputs \X (0..Len(contacts)) :
        AuthReply(in.orgId, in.userId) # 0 \/ id = 0}

AgentRejected ==
    /\ RejectedInputs # {}
    /\ UNCHANGED vars

\* the conv_updated event each action publishes
AgentConvEvent(call) ==
    CASE call.action = "assign" ->
            [type |-> "conv_updated", contactId |-> call.id,
             convStatus |-> call.contact.convStatus,
             assignedToId |-> call.contact.assignedToId]
      [] call.action = "resolve" ->
            [type |-> "conv_updated", contactId |-> call.id,
             convStatus |-> "resolved", assignedToId |-> Null]
      [] call.action = "open" ->
            [type |-> "conv_updated", contactId |-> call.id,
             convStatus |-> "open",
             assignedToId |-> call.contact.assignedToId]

AgentPublish(a) ==
    LET call == agentCalls[a]
    IN  /\ call.pc = "publish"
        /\ publishToOrg(call.orgId, AgentConvEvent(call), 0)
        /\ agentCalls' = [agentCalls EXCEPT ![a] = AgentDone(200)]
        /\ UNCHANGED <<clientVars, leadVars, adminVars, registryVars, contacts, messages, webhooks>>

----------------------------------------------------------------------------
(* lib/autoAssignment: determineAssignee, assignContact and                 *)
(* processAutoAssignment.  The organization's settings, its rules and its   *)
(* members do not change; the contact table does.                           *)

\* member rows with their role
MemberRoles ==
    {[organizationId |-> "org1", userId |-> "u1", role |-> "agent"],
     [organizationId |-> "org1", userId |-> "u3", role |-> "agent"],
     [organizationId |-> "org1", userId |-> "u4", role |-> "admin"],
     [organizationId |-> "org2", userId |-> "u2", role |-> "agent"]}

\* autoAssignmentStrategy: unset, the three the switch names, another text
Strategies == {Null, "round-robin", "load-balancing", "random", "priority"}

\* an AssignmentRule row; channelIds is conditionValue.channelIds (absent:
\* empty) and assigneeIds the rule's list of user ids
Rule(id, active, priority, conditionType, channelIds, assignTo, assigneeIds) ==
    [id |-> id, active |-> active, priority |-> priority,
     conditionType |-> conditionType, channelIds |-> channelIds,
     assignTo |-> assignTo, assigneeIds |-> assigneeIds]

\* the rule tables the policy is exercised with
RuleTables ==
    {{},
     {Rule(1, TRUE, 1, "always", {}, "round-robin", {})},
     {Rule(1, TRUE, 2, "channel", {"ch1"}, "specific", {"u3"}),
      Rule(2, TRUE, 1, "always", {}, "specific", {"u1"})},
     {Rule(1, TRUE, 2, "channel", {"w1"}, "specific", {"u3"}),
      Rule(2, TRUE, 1, "always", {}, "specific", {"u1"})},
     {Rule(1, FALSE, 9, "always", {}, "specific", {"u3"}),
      Rule(2, TRUE, 1, "channel", {"ch1", "w1"}, "specific", {"u1"})},
     {Rule(1, TRUE, 5, "tag", {}, "specific", {"u3"}),
      Rule(2, TRUE, 4, "keyword", {}, "specific", {"u3"}),
      Rule(3, TRUE, 3, "always", {}, "specific", {"u1"})},
     {Rule(1, TRUE, 5, "time", {}, "specific", {"u3"}),
      Rule(2, TRUE, 4, "vip", {}, "specific", {"u3"})},
     {Rule(1, TRUE, 1, "always", {}, "specific", {"u4", "u2"})},
     {Rule(1, TRUE, 1, "always", {}, "specific", {})},
     {Rule(1, TRUE, 3, "always", {}, "specific", {"u1"}),
      Rule(2, TRUE, 3, "always", {}, "specific", {"u3"})}}

AssignConfigs ==
    [autoAssignmentEnabled : BOOLEAN, autoAssignmentStrategy : Strategies,
     rules : RuleTables]

\* organization.findUnique: only org1 has the settings row modelled here
OrgSettings(orgId) ==
    IF orgId = "org1" THEN assignConfig
    ELSE [autoAssignmentEnabled |-> FALSE, autoAssignmentStrategy |-> Null,
          rules |-> {}]

\* mutant of evaluateRuleCondition: a tag rule matches every contact
evaluateRuleConditionTagMatches(rule, contact) ==
    CASE rule.conditionType = "always" -> TRUE
      [] rule.conditionType = "channel" ->
            contact.channelId # Null /\ contact.channelId \in rule.channelIds
      [] rule.conditionType = "tag" -> TRUE
      [] OTHER -> FALSE

\* switch (rule.conditionType)
evaluateRuleCondition(rule, contact) ==
    CASE rule.conditionType = "always" -> TRUE
      [] rule.conditionType = "channel" ->
            contact.channelId # Null /\ contact.channelId \in rule.channelIds
      [] OTHER -> FALSE

\* the orders in which a query may return the rows of the set S
Arrangements(S) ==
    {seq \in [1..Cardinality(S) -> S] :
        \A i, j \in 1..Cardinality(S) : i # j => seq[i] # seq[j]}

\* assignmentRule.findMany({ where: { organizationId, active: true },
\* orderBy: { priority: 'desc' } }), then rules.filter(evaluateRuleCondition)
getApplicableRules(orgId, contact) ==
    LET active == {r \in OrgSettings(orgId).rules : r.active}
    IN  {SelectSeq(rows, LAMBDA r : evaluateRuleCondition(r, contact)) :
            rows \in {seq \in Arrangements(active) :
                        \A i, j \in 1..Len(seq) :
                            i < j => seq[i].priority >= seq[j].priority}}

\* user._count.assignedContacts with convStatus in ['open', 'pending']
getAgentLoad(userId) ==
    Cardinality({c \in 1..Len(contacts) :
        /\ contacts[c].assignedToId = userId
        /\ contacts[c].convStatus \in {"open", "pending"}})

\* member.findMany({ where: { organizationId, role: 'agent', userId? } }):
\* the user ids of the rows, in any order
getAvailableAgents(orgId, agentIds) ==
    LET found == {m.userId : m \in {m \in MemberRoles :
                      /\ m.organizationId = orgId
                      /\ m.role = "agent"
                      /\ agentIds # {} => m.userId \in agentIds}}
    IN  Arrangements(found)

\* Array.prototype.sort with (a, b) => load(a) - load(b), which is stable:
\* insertion of each agent behind the agents whose load is not greater
RECURSIVE SortByLoad(_)
SortByLoad(agents) ==
    IF agents = <<>> THEN <<>>
    ELSE LET rest == SortByLoad(SubSeq(agents, 1, Len(agents) - 1))
             last == agents[Len(agents)]
             keep == Cardinality({i \in 1..Len(rest) :
                         getAgentLoad(rest[i]) <= getAgentLoad(last)})
         IN  SubSeq(rest, 1, keep) \o <<last>>
                 \o SubSeq(rest, keep + 1, Len(rest))

\* mutant of selectAgentRoundRobin: the agent with the greatest load
selectAgentMostLoaded(agents) ==
    IF agents = <<>> THEN {Null}
    ELSE {SortByLoad(agents)[Len(agents)]}

\* selectAgentRoundRobin (selectAgentLoadBalancing calls it): sorted[0].userId
selectAgentRoundRobin(agents) ==
    IF agents = <<>> THEN {Null} ELSE {SortByLoad(agents)[1]}

\* selectAgentRandom: agents[Math.floor(Math.random() * agents.length)].userId
selectAgentRandom(agents) ==
    IF agents = <<>> THEN {Null} ELSE {agents[i] : i \in 1..Len(agents)}

\* mutant of PoolIds: a 'specific' rule does not narrow the pool
PoolIdsAllAgents(rules) == {}

\* agentIds: the assigneeIds of rules[0] when its assignTo is 'specific'
PoolIds(rules) ==
    IF rules # <<>> /\ rules[1].assignTo = "specific"
    THEN rules[1].assigneeIds
    ELSE {}

\* determineAssignee: what it may return for this contact, with the rule
\* it used (0: none) and the agents it chose from
determineAssignee(orgId, contact) ==
    LET org == OrgSettings(orgId)
    IN  IF ~org.autoAssignmentEnabled
        THEN {[assigneeId |-> Null, rule |-> 0, agents |-> <<>>]}
        ELSE UNION {
               UNION {
                 {[assigneeId |-> who,
                   rule |-> IF rules = <<>> THEN 0 ELSE rules[1].id,
                   agents |-> agents] :
                    who \in IF agents = <<>> THEN {Null}
                            ELSE IF org.autoAssignmentStrategy = "random"
                            THEN selectAgentRandom(agents)
                            ELSE selectAgentRoundRobin(agents)} :
                 agents \in getAvailableAgents(orgId, PoolIds(rules))} :
               rules \in getApplicableRules(orgId, contact)}

\* a call that has returned keeps what it read and decided
AutoDone(call) == [call EXCEPT !.pc = "done"]

\* processAutoAssignment(contactId, organizationId) is called: shouldAutoAssign
\* reads the settings and contact.findUnique the contact; the function returns
\* when auto-assignment is off, the contact is missing or it has an assignee
AutoArrive ==
    \E contactId \in 0..Len(contacts), orgId \in OrgIds :
        LET call == [pc |-> "select", contactId |-> contactId, orgId |-> orgId,
                     contact |-> IF contactId = 0 THEN NoContact
                                 ELSE Snapshot(contactId),
                     assigneeId |-> Null, rule |-> 0, agents |-> <<>>,
                     assigned |-> FALSE, direct |-> FALSE]
        IN  /\ NumRequests < MaxRequests
            /\ autoCalls' = Append(autoCalls,
                   IF \/ ~OrgSettings(orgId).autoAssignmentEnabled
                      \/ contactId = 0
                      \/ call.contact.assignedToId # Null
                   THEN AutoDone(call) ELSE call)
            /\ UNCHANGED <<registryVars, pubLog, deliveries, convVars,
                           clientVars, leadVars, assignConfig, channelStatus>>

\* determineAssignee(organizationId, contact), which the module exports, is
\* called with a contact row the caller has read
DetermineArrive ==
    \E contactId \in 1..Len(contacts), orgId \in OrgIds :
        /\ NumRequests < MaxRequests
        /\ autoCalls' = Append(autoCalls,
               [pc |-> "select", contactId |-> contactId, orgId |-> orgId,
                contact |-> Snapshot(contactId), assigneeId |-> Null,
                rule |-> 0, agents |-> <<>>, assigned |-> FALSE,
                direct |-> TRUE])
        /\ UNCHANGED <<registryVars, pubLog, deliveries, convVars,
                       clientVars, leadVars, assignConfig, channelStatus>>

\* determineAssignee has answered (its reads of the settings and the rules
\* do not depend on when they are made; the agents' loads are counted now)
AutoSelect(a) ==
    LET call == autoCalls[a]
    IN  /\ call.pc = "select"
        /\ \E d \in determineAssignee(call.orgId, call.contact) :
              autoCalls' = [autoCalls EXCEPT ![a] =
                  [call EXCEPT !.assigneeId = d.assigneeId, !.rule = d.rule,
                               !.agents = d.agents,
                               !.pc = IF d.assigneeId = Null \/ call.direct
                                      THEN "done" ELSE "assign"]]
        /\ UNCHANGED <<registryVars, pubLog, deliveries, convVars,
                       clientVars, leadVars, assignConfig, channelStatus>>

\* assignContact: prisma.contact.update({ where: { id: contactId },
\* data: { assignedToId: assigneeId } }); the publishToOrg call that follows
\* it in the source is commented out
AutoAssign(a) ==
    LET call == autoCalls[a]
    IN  /\ call.pc = "assign"
        /\ contacts' = [contacts EXCEPT
               ![call.contactId].assignedToId = call.assigneeId]
        /\ autoCalls' = [autoCalls EXCEPT ![a].pc = "done",
                                          ![a].assigned = TRUE]
        /\ UNCHANGED <<registryVars, pubLog, deliveries, messages, webhooks,
                       agentCalls, clientVars, leadVars, assignConfig,
                       channelStatus>>

----------------------------------------------------------------------------
(* Webhook deliveries and agent calls running concurrently.  The contact    *)
(* table starts empty or with one contact of org1 in any conversation       *)
(* state; no dashboard is connected, so a publish reaches no handler.       *)

InitialContacts ==
    {<<>>} \cup
    {<<[organizationId |-> "org1", channelId |-> "ch1", externalId |-> jid,
        convStatus |-> st, assignedToId |-> who, phone |-> PhoneOf(jid),
        name |-> <<"A", "n", "a">>]>> :
        jid \in RemoteJids, st \in ConvStatuses \cup {Null}, who \in Assignees}

InitConv ==
    /\ agentSubscribers = EmptyMap
    /\ widgetSubscribers = EmptyMap
    /\ agentUnsubs = <<>>
    /\ widgetUnsubs = <<>>
    /\ pubLog = <<>>
    /\ deliveries = <<>>
    /\ contacts \in InitialContacts
    /\ messages = <<>>
    /\ webhooks = <<>>
    /\ agentCalls = <<>>
    /\ streams = <<>>
    /\ widgetCalls = <<>>
    /\ messageCalls = <<>>
    /\ leadHooks = <<>>
    /\ campaignLeads = <<>>
    /\ rawBodyOn = FALSE
    /\ assignConfig = DefaultAssignConfig
    /\ autoCalls = <<>>
    /\ channelStatus = InitialChannelStatus

WaCreateContactStep == \E r \in 1..Len(webhooks) : WaCreateContact(r)

WaCreateMessageStep == \E r \in 1..Len(webhooks) : WaCreateMessage(r)

WaPublishMessageStep == \E r \in 1..Len(webhooks) : WaPublishMessage(r)

WaUpdateStatusStep == \E r \in 1..Len(webhooks) : WaUpdateStatus(r)

WaPublishConvStep == \E r \in 1..Len(webhooks) : WaPublishConv(r)

AgentPublishStep == \E a \in 1..Len(agentCalls) : AgentPublish(a)

NextConv ==
    \/ WaReceive
    \/ WaCreateContactStep
    \/ WaCreateMessageStep
    \/ WaPublishMessageStep
    \/ WaUpdateStatusStep
    \/ WaPublishConvStep
    \/ AgentUpdate
    \/ AgentRejected
    \/ AgentPublishStep

SpecConv == InitConv /\ [][NextConv]_vars

----------------------------------------------------------------------------
(* The webhook with requests it has nothing to do for and with storage      *)
(* operations that fail.  The handler has no try/catch and the server sets  *)
(* no error handler: a rejected await rejects the handler and the framework *)
(* answers 500.                                                             *)

\* body.instance: absent, a channel's instance, an instance of no channel
BodyInstances == {Null, "inst1", "instX"}

\* body.event after normalisation: the kind ingested here and a kind the
\* handler has no branch for
EventKinds == {"MESSAGES_UPSERT", "PRESENCE_UPDATE"}

\* if (!body.instance) return 200; if (!channel) return 200; no branch taken
IgnoredInputs ==
    {in \in [instance : BodyInstances, event : EventKinds] :
        \/ in.instance = Null
        \/ in.instance \notin Instances
        \/ in.event # "MESSAGES_UPSERT"}

WaIgnored ==
    /\ NumRequests < MaxRequests
    /\ IgnoredInputs # {}
    /\ webhooks' = Append(webhooks, WebhookDone(200))
    /\ UNCHANGED <<registryVars, pubLog, deliveries, contacts, messages,
                   agentCalls, clientVars, leadVars, adminVars>>

\* channel.findMany or contact.findFirst rejects
WaLookupFails ==
    /\ NumRequests < MaxRequests
    /\ \E inst \in BodyInstances : inst # Null
    /\ webhooks' = Append(webhooks, WebhookDone(500))
    /\ UNCHANGED <<registryVars, pubLog, deliveries, contacts, messages,
                   agentCalls, clientVars, leadVars, adminVars>>

\* the program points at which the handler awaits a write
StorageWrites ==
    {"createContact", "updateName", "createMessage", "updateStatus"}

\* contact.create, message.create or contact.update rejects
WaStorageFails(r) ==
    /\ webhooks[r].pc \in StorageWrites
    /\ webhooks' = [webhooks EXCEPT ![r] = WebhookDone(500)]
    /\ UNCHANGED <<registryVars, pubLog, deliveries, contacts, messages,
                   agentCalls, clientVars, leadVars, adminVars>>

WaStorageFailsStep == \E r \in 1..Len(webhooks) : WaStorageFails(r)

NextWebhook ==
    \/ WaReceive
    \/ WaIgnored
    \/ WaLookupFails
    \/ WaCreateContactStep
    \/ WaCreateMessageStep
    \/ WaPublishMessageStep
    \/ WaUpdateStatusStep
    \/ WaPublishConvStep
    \/ WaStorageFailsStep

SpecWebhook == InitConv /\ [][NextWebhook]_vars

----------------------------------------------------------------------------
(* The webhook with every kind of message payload and with pushName.        *)

\* a request whose message was dropped keeps what content detection found
WebhookDropped(d) ==
    [WebhookDone(200) EXCEPT !.msgType = d.msgType, !.content = d.content]

\* any message of an individual chat that passes if (content || isMedia)
WaReceiveAny ==
    /\ Len(webhooks) < MaxDeliveries
    /\ WaArrive(MessagePayloads, PushNames, {"m1"})

\* the else side of if (content || isMedia): the handler falls through to
\* return reply.status(200)
WaDropped ==
    /\ Len(webhooks) < MaxDeliveries
    /\ \E inst \in Instances, msg \in MessagePayloads :
          /\ ~Ingested(Detect(msg))
          /\ webhooks' = Append(webhooks, WebhookDropped(Detect(msg)))
    /\ UNCHANGED <<registryVars, pubLog, deliveries, contacts, messages,
                   agentCalls, clientVars, leadVars, adminVars>>

WaUpdateNameStep == \E r \in 1..Len(webhooks) : WaUpdateName(r)

NextIngest ==
    \/ WaReceiveAny
    \/ WaDropped
    \/ WaCreateContactStep
    \/ WaUpdateNameStep
    \/ WaCreateMessageStep
    \/ WaPublishMessageStep
    \/ WaUpdateStatusStep
    \/ WaPublishConvStep

SpecIngest == InitConv /\ [][NextIngest]_vars

----------------------------------------------------------------------------
(* The HTTP clients of the two buses: SSE streams, the widget's message     *)
(* calls and the dashboard's POST /messages.                                *)

\* channels of type api (widget channels), found by config.apiKey
ApiChannels ==
    {[id |-> "w1", organizationId |-> "org1", apiKey |-> "k1"],
     [id |-> "w2", organizationId |-> "org2", apiKey |-> "k2"]}

\* keys a widget client presents: a channel's key, an unknown key, no key
ApiKeys == {"k1", "kx", Null}

\* Channel.type by channel id (null: no such channel)
ChannelType(channelId) ==
    IF \E ch \in ApiChannels : ch.id = channelId THEN "api"
    ELSE IF \E ch \in Channels : ch.id = channelId THEN "whatsapp"
    ELSE Null

\* resolveChannel: the channels the query may return (none: null).
\* if (!apiKey) return null; SELECT id FROM channels WHERE type = 'api' AND
\* config->>'apiKey' = apiKey LIMIT 1
resolveChannel(apiKey) ==
    IF apiKey = Null THEN {}
    ELSE {ch \in ApiChannels : ch.apiKey = apiKey}

\* mutant of resolveContact: the contact is looked up by id alone
resolveContactByIdOnly(contactId, channelId, orgId) ==
    contactId \in 1..Len(contacts)

\* resolveContact: contact.findFirst({ where: { id, channelId, organizationId } })
resolveContact(contactId, channelId, orgId) ==
    /\ contactId \in 1..Len(contacts)
    /\ contacts[contactId].channelId = channelId
    /\ contacts[contactId].organizationId = orgId

\* what the widget routes answer before serving: 401, 403 or 0 (go on)
WidgetAuthReply(apiKey, contactId) ==
    IF resolveChannel(apiKey) = {} THEN 401
    ELSE IF \A ch \in resolveChannel(apiKey) :
                ~resolveContact(contactId, ch.id, ch.organizationId) THEN 403
    ELSE 0

NumClientCalls == Len(streams) + Len(widgetCalls) + Len(messageCalls)

\* The notification preferences of a member row that the stream's callback
\* reads (notifyMention is selected with them and never read).
AllPrefs ==
    [notifyNewMessage : BOOLEAN, notifyAssigned : BOOLEAN,
     notifyResolved : BOOLEAN]

\* every notification switched on
DefaultPrefs ==
    [notifyNewMessage |-> TRUE, notifyAssigned |-> TRUE,
     notifyResolved |-> TRUE]

\* what a stream holds before its member row is read
NoPrefs ==
    [notifyNewMessage |-> FALSE, notifyAssigned |-> FALSE,
     notifyResolved |-> FALSE]

\* mutant of shouldNotify: the resolved test overwrites the assignment test
shouldNotifyResolvedOverwrites(member, userId, event) ==
    IF event.type = "new_message" THEN member.notifyNewMessage
    ELSE IF event.type = "conv_updated"
    THEN IF event.convStatus = "resolved" THEN member.notifyResolved
         ELSE IF event.assignedToId = userId THEN member.notifyAssigned
         ELSE FALSE
    ELSE FALSE

\* the callback of GET /agent/sse: let shouldNotify = false; ...
shouldNotify(member, userId, event) ==
    IF event.type = "new_message" THEN member.notifyNewMessage
    ELSE IF event.type = "conv_updated"
    THEN LET assigned == IF event.assignedToId = userId
                         THEN member.notifyAssigned ELSE FALSE
         IN  IF event.convStatus = "resolved"
             THEN assigned \/ member.notifyResolved
             ELSE assigned
    ELSE FALSE

\* the subscriber an agent stream registers: its callback is a closure made
\* by that request, so two streams never share one
AgentSubscriber(s) ==
    [sid |-> s, userId |-> streams[s].userId, callback |-> s]

\* the callback a widget stream registers (a closure of that request)
WidgetCallback(s) == s

\* A GET /agent/sse or GET /widget/sse/:contactId request arrives; its
\* handler starts awaiting the authorization lookups.
SseConnect ==
    /\ NumClientCalls < MaxClientCalls
    /\ \/ \E orgId \in OrgIds \cup {Null}, userId \in BusUserIds :
            streams' = Append(streams,
                [kind |-> "agent", topic |-> orgId, userId |-> userId,
                 apiKey |-> Null, pc |-> "auth", open |-> TRUE,
                 heartbeat |-> FALSE,
                 onClose |-> FALSE, reply |-> 0,
                 member |-> NoPrefs, written |-> <<>>])
       \/ \E apiKey \in ApiKeys, contactId \in 0..Len(contacts) :
            streams' = Append(streams,
                [kind |-> "widget", topic |-> contactId, userId |-> Null,
                 apiKey |-> apiKey, pc |-> "auth", open |-> TRUE,
                 heartbeat |-> FALSE,
                 onClose |-> FALSE, reply |-> 0,
                 member |-> NoPrefs, written |-> <<>>])
    /\ UNCHANGED <<registryVars, pubLog, deliveries, convVars, widgetCalls,
                   messageCalls, leadVars, adminVars>>

\* the answer of the stream's authorization checks
SseAuthReply(st) ==
    IF st.kind = "agent" THEN AuthReply(st.topic, st.userId)
    ELSE WidgetAuthReply(st.apiKey, st.topic)

\* The lookups have answered.  A rejected request is replied to; otherwise
\* the handler, without awaiting again, writes the stream head, subscribes,
\* starts the heartbeat timer and registers the close listener.
SseStartWith(s, prefs) ==
    LET st == streams[s]
    IN  /\ st.pc = "auth"
        /\ IF SseAuthReply(st) # 0
           THEN /\ streams' = [streams EXCEPT ![s].pc = "done",
                                              ![s].reply = SseAuthReply(st)]
                /\ UNCHANGED <<agentSubscribers, widgetSubscribers>>
           ELSE /\ \E member \in IF st.kind = "agent" THEN prefs ELSE {NoPrefs} :
                     streams' = [streams EXCEPT ![s].pc = "streaming",
                                                ![s].reply = 200,
                                                ![s].heartbeat = TRUE,
                                                ![s].onClose = TRUE,
                                                ![s].member = member]
                /\ IF st.kind = "agent"
                   THEN /\ agentSubscribers' = subscribeOrg(agentSubscribers,
                                st.topic, AgentSubscriber(s))
                        /\ UNCHANGED widgetSubscribers
                   ELSE /\ widgetSubscribers' = subscribe(widgetSubscribers,
                                st.topic, WidgetCallback(s))
                        /\ UNCHANGED agentSubscribers
        /\ UNCHANGED <<agentUnsubs, widgetUnsubs, pubLog, deliveries, convVars,
                       widgetCalls, messageCalls, leadVars, adminVars>>

\* the streams of members who have every notification switched on
SseStart(s) == SseStartWith(s, {DefaultPrefs})

\* The events the streams' callbacks write when publishToOrg(orgId, event)
\* invokes them: reply.raw.write(...) if (shouldNotify)
WrittenAfterOrg(orgId, event) ==
    [s \in 1..Len(streams) |->
        IF /\ streams[s].kind = "agent"
           /\ SetHas(Registered(agentSubscribers, orgId), AgentSubscriber(s))
           /\ shouldNotify(streams[s].member, streams[s].userId, event)
        THEN [streams[s] EXCEPT !.written = Append(@, event)]
        ELSE streams[s]]

\* the widget stream's callback writes every message it is called with
WrittenAfterContact(contactId, msg) ==
    [s \in 1..Len(streams) |->
        IF /\ streams[s].kind = "widget"
           /\ SetHas(Registered(widgetSubscribers, contactId), WidgetCallback(s))
        THEN [streams[s] EXCEPT !.written = Append(@, msg)]
        ELSE streams[s]]

\* The client's connection closes.  request.raw emits 'close' once, to the
\* listeners registered at that moment: clearInterval(heartbeat); unsubscribe()
SseClose(s) ==
    LET st == streams[s]
    IN  /\ st.open
        /\ IF st.onClose
           THEN /\ streams' = [streams EXCEPT ![s].open = FALSE,
                                              ![s].heartbeat = FALSE]
                /\ IF st.kind = "agent"
                   THEN /\ agentSubscribers' = unsubscribeOrg(agentSubscribers,
                                st.topic, AgentSubscriber(s))
                        /\ UNCHANGED widgetSubscribers
                   ELSE /\ widgetSubscribers' = unsubscribe(widgetSubscribers,
                                st.topic, WidgetCallback(s))
                        /\ UNCHANGED agentSubscribers
           ELSE /\ streams' = [streams EXCEPT ![s].open = FALSE]
                /\ UNCHANGED <<agentSubscribers, widgetSubscribers>>
        /\ UNCHANGED <<agentUnsubs, widgetUnsubs, pubLog, deliveries, convVars,
                       widgetCalls, messageCalls, leadVars, adminVars>>

\* GET /widget/messages: the lookups and findMany read tables that the
\* other widget calls only append to; the call is one step.
WidgetHistory(contactId, orgId) ==
    {m \in 1..Len(messages) :
        /\ messages[m].contactId = contactId
        /\ messages[m].organizationId = orgId}

WidgetGetMessages ==
    /\ NumClientCalls < MaxClientCalls
    /\ \E apiKey \in ApiKeys, contactId \in 0..Len(contacts) :
          IF WidgetAuthReply(apiKey, contactId) # 0
          THEN widgetCalls' = Append(widgetCalls,
                   [method |-> "GET", apiKey |-> apiKey, contactId |-> contactId,
                    organizationId |-> Null, pc |-> "done", savedMsg |-> 0,
                    result |-> {},
                    reply |-> WidgetAuthReply(apiKey, contactId)])
          ELSE \E ch \in resolveChannel(apiKey) :
                   widgetCalls' = Append(widgetCalls,
                       [method |-> "GET", apiKey |-> apiKey,
                        contactId |-> contactId,
                        organizationId |-> ch.organizationId, pc |-> "done",
                        savedMsg |-> 0,
                        result |-> WidgetHistory(contactId, ch.organizationId),
                        reply |-> 200])
    /\ UNCHANGED <<registryVars, pubLog, deliveries, convVars, streams,
                   messageCalls, leadVars, adminVars>>

\* prisma.message.create of POST /widget/messages
WidgetMessageRow(ch, contactId) ==
    [organizationId |-> ch.organizationId, contactId |-> contactId,
     channelId |-> ch.id, direction |-> "inbound", externalId |-> Null]

\* POST /widget/messages up to its message.create
WidgetPostMessage ==
    /\ NumClientCalls < MaxClientCalls
    /\ \E apiKey \in ApiKeys, contactId \in 0..Len(contacts) :
          IF WidgetAuthReply(apiKey, contactId) # 0
          THEN /\ widgetCalls' = Append(widgetCalls,
                     [method |-> "POST", apiKey |-> apiKey,
                      contactId |-> contactId, organizationId |-> Null,
                      pc |-> "done", savedMsg |-> 0, result |-> {},
                      reply |-> WidgetAuthReply(apiKey, contactId)])
               /\ UNCHANGED messages
          ELSE \E ch \in resolveChannel(apiKey) :
                 /\ messages' = Append(messages, WidgetMessageRow(ch, contactId))
                 /\ widgetCalls' = Append(widgetCalls,
                       [method |-> "POST", apiKey |-> apiKey,
                        contactId |-> contactId,
                        organizationId |-> ch.organizationId,
                        pc |-> "publish", savedMsg |-> Len(messages) + 1,
                        result |-> {}, reply |-> 0])
    /\ UNCHANGED <<registryVars, pubLog, deliveries, contacts, webhooks,
                   agentCalls, streams, messageCalls, leadVars, adminVars>>

\* the new_message event of POST /widget/messages
WidgetMessageEvent(call) ==
    [type |-> "new_message", contactId |-> call.contactId,
     message |-> [id |-> call.savedMsg, direction |-> "inbound"]]

\* the handlers registered by the program's streams write to their response;
\* none of them throws
NoThrower == 0

\* publishToOrg(channel.organizationId, ...); reply.status(201).send(message)
WidgetPostPublish(c) ==
    LET call == widgetCalls[c]
    IN  /\ call.pc = "publish"
        /\ publishToOrg(call.organizationId, WidgetMessageEvent(call), NoThrower)
        /\ streams' = WrittenAfterOrg(call.organizationId,
                                      WidgetMessageEvent(call))
        /\ widgetCalls' = [widgetCalls EXCEPT ![c].pc = "done",
                                              ![c].reply = 201]
        /\ UNCHANGED <<registryVars, convVars, messageCalls, leadVars, adminVars>>

\* body.channelId of POST /messages: absent, a WhatsApp channel, a widget channel
BodyChannelIds == {Null, "ch1", "w1"}

Directions == {"outbound", "inbound"}

\* body.type of POST /messages: a message for the visitor, an internal note
BodyTypes == {"text", "note"}

\* prisma.message.create of POST /messages
PostedMessageRow(orgId, body) ==
    [organizationId |-> orgId, contactId |-> body.contactId,
     channelId |-> body.channelId, direction |-> body.direction,
     type |-> body.type, externalId |-> Null]

\* if (body.direction === 'outbound' && body.channelId)
LooksUpChannel(body) == body.direction = "outbound" /\ body.channelId # Null

\* POST /messages up to its message.create; a call that needs no channel
\* lookup replies 201 without awaiting again
MessagePost ==
    /\ NumClientCalls < MaxClientCalls
    /\ \E orgId \in OrgIds \cup {Null}, userId \in BusUserIds,
          body \in [contactId : 1..Len(contacts), channelId : BodyChannelIds,
                    direction : Directions, type : BodyTypes] :
          IF AuthReply(orgId, userId) # 0
          THEN /\ messageCalls' = Append(messageCalls,
                     [body |-> body, orgId |-> orgId, pc |-> "done",
                      savedMsg |-> 0, reply |-> AuthReply(orgId, userId)])
               /\ UNCHANGED messages
          ELSE /\ messages' = Append(messages, PostedMessageRow(orgId, body))
               /\ messageCalls' = Append(messageCalls,
                     [body |-> body, orgId |-> orgId,
                      pc |-> IF LooksUpChannel(body) THEN "findChannel"
                             ELSE "done",
                      savedMsg |-> Len(messages) + 1,
                      reply |-> IF LooksUpChannel(body) THEN 0 ELSE 201])
    /\ UNCHANGED <<registryVars, pubLog, deliveries, contacts, webhooks,
                   agentCalls, streams, widgetCalls, leadVars, adminVars>>

\* mutant of PublishesToWidget: a message of any channel is pushed
PublishesToWidgetAnyChannel(body) == TRUE

\* if (channel?.type === 'api')
PublishesToWidget(body) == ChannelType(body.channelId) = "api"

\* the SseMessage pushed to the visitor
SseMessage(call) ==
    [id |-> call.savedMsg, contactId |-> messages[call.savedMsg].contactId,
     direction |-> messages[call.savedMsg].direction,
     type |-> messages[call.savedMsg].type]

\* channel.findUnique has answered: publish(body.contactId, ...) for a widget
\* channel, then reply.status(201).send(message)
MessagePublish(m) ==
    LET call == messageCalls[m]
    IN  /\ call.pc = "findChannel"
        /\ IF PublishesToWidget(call.body)
           THEN /\ publish(call.body.contactId, SseMessage(call), NoThrower)
                /\ streams' = WrittenAfterContact(call.body.contactId,
                                                  SseMessage(call))
           ELSE UNCHANGED <<pubLog, deliveries, streams>>
        /\ messageCalls' = [messageCalls EXCEPT ![m].pc = "done",
                                                ![m].reply = 201]
        /\ UNCHANGED <<registryVars, convVars, widgetCalls, leadVars, adminVars>>

\* Contacts of the two widget channels; the first one's conversation is in
\* any state.
InitialWidgetContacts ==
    {<<[organizationId |-> "org1", channelId |-> "w1", externalId |-> Null,
        convStatus |-> st, assignedToId |-> Null],
       [organizationId |-> "org2", channelId |-> "w2", externalId |-> Null,
        convStatus |-> "open", assignedToId |-> Null]>> :
        st \in ConvStatuses \cup {Null}}

InitSse ==
    /\ agentSubscribers = EmptyMap
    /\ widgetSubscribers = EmptyMap
    /\ agentUnsubs = <<>>
    /\ widgetUnsubs = <<>>
    /\ pubLog = <<>>
    /\ deliveries = <<>>
    /\ contacts \in InitialWidgetContacts
    /\ messages = <<>>
    /\ webhooks = <<>>
    /\ agentCalls = <<>>
    /\ streams = <<>>
    /\ widgetCalls = <<>>
    /\ messageCalls = <<>>
    /\ leadHooks = <<>>
    /\ campaignLeads = <<>>
    /\ rawBodyOn = FALSE
    /\ assignConfig = DefaultAssignConfig
    /\ autoCalls = <<>>
    /\ channelStatus = InitialChannelStatus

SseStartStep == \E s \in 1..Len(streams) : SseStart(s)

SseCloseStep == \E s \in 1..Len(streams) : SseClose(s)

WidgetPostPublishStep == \E c \in 1..Len(widgetCalls) : WidgetPostPublish(c)

MessagePublishStep == \E m \in 1..Len(messageCalls) : MessagePublish(m)

NextSse ==
    \/ SseConnect
    \/ SseStartStep
    \/ SseCloseStep
    \/ WidgetGetMessages
    \/ WidgetPostMessage
    \/ WidgetPostPublishStep
    \/ MessagePost
    \/ MessagePublishStep

SpecSse == InitSse /\ [][NextSse]_vars

----------------------------------------------------------------------------
(* Dashboards of members with any notification preferences, and the events  *)
(* the routes publish on the organization topics.                           *)

\* events of the kinds the routes publish: new_message, conv_updated with
\* any status and assignee, and a presence event
DashEvents ==
    {[type |-> "new_message", contactId |-> 1]}
    \cup {[type |-> "conv_updated", contactId |-> 1, convStatus |-> st,
           assignedToId |-> who] :
              st \in ConvStatuses, who \in UserIds \cup {Null}}
    \cup {[type |-> "user_viewing", contactId |-> 1, userId |-> "u2"]}

NumDashCalls == NumClientCalls + Len(pubLog)

\* a dashboard or widget stream request arrives
DashConnect ==
    /\ NumDashCalls < MaxClientCalls
    /\ SseConnect

\* the member row read by the stream's handler holds any preferences
SseStartAny == \E s \in 1..Len(streams) : SseStartWith(s, AllPrefs)

\* a route publishes an event on an organization topic; the callbacks of the
\* streams subscribed to it run before publishToOrg returns
DashPublish ==
    /\ NumDashCalls < MaxClientCalls
    /\ \E orgId \in OrgIds, event \in DashEvents :
          /\ publishToOrg(orgId, event, NoThrower)
          /\ streams' = WrittenAfterOrg(orgId, event)
    /\ UNCHANGED <<registryVars, convVars, widgetCalls, messageCalls, leadVars, adminVars>>

NextDash ==
    \/ DashConnect
    \/ SseStartAny
    \/ SseCloseStep
    \/ DashPublish

SpecDash == InitSse /\ [][NextDash]_vars

----------------------------------------------------------------------------
(* POST /widget/session: a visitor's contact is looked up by organization,  *)
(* channel and email, and created when none is found.  The lookup, the      *)
(* update and the create are awaits: other requests run between them.       *)

\* body.email, body.name (both required, not empty) and the optional phone
SessionEmails == {"e1", "e2"}

SessionNames == {"n1", "n2"}

SessionPhones == {Null, "p1"}

\* a finished session request keeps its key, its email and what it answered
SessionDone(call, code, contactId, isNew) ==
    [pc |-> "done", apiKey |-> call.apiKey, email |-> call.email,
     name |-> Null, phone |-> Null, channelId |-> Null,
     organizationId |-> Null, contact |-> 0,
     contactId |-> contactId, isNew |-> isNew, reply |-> code]

\* prisma.contact.findFirst({ where: { organizationId, channelId, email } })
SessionContacts(orgId, channelId, email) ==
    {c \in 1..Len(contacts) :
        /\ contacts[c].organizationId = orgId
        /\ contacts[c].channelId = channelId
        /\ contacts[c].email = email}

\* if (name && contact.name !== name) ...; if (phone && contact.phone !== phone) ...
SessionUpdates(row, name, phone) ==
    {f \in {"name", "phone"} :
        \/ f = "name" /\ row.name # name
        \/ f = "phone" /\ phone # Null /\ row.phone # phone}

\* The request arrives, the key is resolved (channel configs do not change)
\* and the contact is looked up; findFirst may return any matching row.
SessionFind ==
    /\ NumClientCalls < MaxClientCalls
    /\ \E apiKey \in ApiKeys, email \in SessionEmails, name \in SessionNames,
          phone \in SessionPhones :
          LET call == [pc |-> "find", apiKey |-> apiKey, email |-> email,
                       name |-> name, phone |-> phone, channelId |-> Null,
                       organizationId |-> Null, contact |-> 0,
                       contactId |-> 0, isNew |-> FALSE, reply |-> 0]
          IN  IF resolveChannel(apiKey) = {}
              THEN widgetCalls' = Append(widgetCalls,
                                         SessionDone(call, 401, 0, FALSE))
              ELSE \E ch \in resolveChannel(apiKey) :
                     LET found == SessionContacts(ch.organizationId, ch.id, email)
                     IN  \E c \in IF found = {} THEN {0} ELSE found :
                           widgetCalls' = Append(widgetCalls,
                             IF c = 0
                             THEN [call EXCEPT !.pc = "create",
                                       !.channelId = ch.id,
                                       !.organizationId = ch.organizationId]
                             ELSE IF SessionUpdates(contacts[c], name, phone) # {}
                             THEN [call EXCEPT !.pc = "update",
                                       !.channelId = ch.id,
                                       !.organizationId = ch.organizationId,
                                       !.contact = c]
                             ELSE SessionDone(call, 200, c, FALSE))
    /\ UNCHANGED <<registryVars, pubLog, deliveries, contacts, messages,
                   webhooks, agentCalls, streams, messageCalls, leadVars, adminVars>>

\* prisma.contact.update({ where: { id: contact.id }, data: updates })
SessionUpdate(c) ==
    LET call == widgetCalls[c]
        row  == contacts[call.contact]
    IN  /\ call.pc = "update"
        /\ contacts' = [contacts EXCEPT ![call.contact] =
               [row EXCEPT !.name = call.name,
                           !.phone = IF call.phone # Null /\ row.phone # call.phone
                                     THEN call.phone ELSE row.phone]]
        /\ widgetCalls' = [widgetCalls EXCEPT
               ![c] = SessionDone(call, 200, call.contact, FALSE)]
        /\ UNCHANGED <<registryVars, pubLog, deliveries, messages, webhooks,
                       agentCalls, streams, messageCalls, leadVars, adminVars>>

\* data: { organizationId, channelId, name, email, ...(phone ? { phone } : {}) }
SessionContactRow(call) ==
    [organizationId |-> call.organizationId, channelId |-> call.channelId,
     name |-> call.name, email |-> call.email, phone |-> call.phone]

\* prisma.contact.create; the answer is 201 { contactId, isNew: true }
SessionCreate(c) ==
    LET call == widgetCalls[c]
    IN  /\ call.pc = "create"
        /\ contacts' = Append(contacts, SessionContactRow(call))
        /\ widgetCalls' = [widgetCalls EXCEPT
               ![c] = SessionDone(call, 201, Len(contacts) + 1, TRUE)]
        /\ UNCHANGED <<registryVars, pubLog, deliveries, messages, webhooks,
                       agentCalls, streams, messageCalls, leadVars, adminVars>>

\* no visitor yet, or one visitor of channel w1 known by email e1
InitialSessionContacts ==
    {<<>>,
     <<[organizationId |-> "org1", channelId |-> "w1", name |-> "n1",
        email |-> "e1", phone |-> Null]>>}

InitSession ==
    /\ agentSubscribers = EmptyMap
    /\ widgetSubscribers = EmptyMap
    /\ agentUnsubs = <<>>
    /\ widgetUnsubs = <<>>
    /\ pubLog = <<>>
    /\ deliveries = <<>>
    /\ contacts \in InitialSessionContacts
    /\ messages = <<>>
    /\ webhooks = <<>>
    /\ agentCalls = <<>>
    /\ streams = <<>>
    /\ widgetCalls = <<>>
    /\ messageCalls = <<>>
    /\ leadHooks = <<>>
    /\ campaignLeads = <<>>
    /\ rawBodyOn = FALSE
    /\ assignConfig = DefaultAssignConfig
    /\ autoCalls = <<>>
    /\ channelStatus = InitialChannelStatus

SessionUpdateStep == \E c \in 1..Len(widgetCalls) : SessionUpdate(c)

SessionCreateStep == \E c \in 1..Len(widgetCalls) : SessionCreate(c)

NextSession ==
    \/ SessionFind
    \/ SessionUpdateStep
    \/ SessionCreateStep

SpecSession == InitSession /\ [][NextSession]_vars

----------------------------------------------------------------------------
(* POST /campaigns/facebook/webhook/:orgId.  A delivery carries one entry   *)
(* with one leadgen change.                                                 *)

\* Organization.fbAppSecret (null: not configured)
FbAppSecret(orgId) == IF orgId = "org1" THEN "s1" ELSE Null

Campaigns ==
    {[id |-> "cmp1", organizationId |-> "org1", fbPageId |-> "p1",
      fbFormIds |-> {"f1"}, fbPageToken |-> "t1"]}

PageIds == {"p1", "p2"}

FormIds == {"f1", "f2"}

LeadgenIds == {"l1", "l2", "l3"}

\* what the Graph API holds for a lead, as extractLeadFields returns it
LeadFields(leadgenId) ==
    CASE leadgenId = "l1" -> [name |-> "Ana", email |-> "e1", phone |-> Null]
      [] leadgenId = "l2" -> [name |-> Null, email |-> Null, phone |-> "+5511"]
      [] leadgenId = "l3" -> [name |-> "Ana M", email |-> "e1", phone |-> Null]

\* createHmac('sha256', secret).update(rawBody).digest('hex'): the digest is
\* a text of hex digits fixed by the secret and the body (here one byte)
HmacHex(secret, leadgenId) ==
    IF leadgenId = "l1" THEN <<"a", "1">> ELSE <<"b", "2">>

\* The x-hub-signature-256 header after .replace('sha256=', ''): absent,
\* empty, the digest of either body, a digest followed by another character
Signatures ==
    {Null, <<>>, <<"a", "1">>, <<"b", "2">>, <<"a", "1", "z">>}

HexDigits == {"0", "1", "2", "a", "b", "A", "B"}

HexValue(ch) ==
    CASE ch = "0" -> 0 [] ch = "1" -> 1 [] ch = "2" -> 2
      [] ch \in {"a", "A"} -> 10 [] ch \in {"b", "B"} -> 11

\* Buffer.from(text, 'hex'): two digits make a byte; decoding stops at the
\* first pair that is not two hex digits, a single last character is dropped
RECURSIVE HexDecode(_)
HexDecode(text) ==
    IF Len(text) < 2 THEN <<>>
    ELSE IF text[1] \in HexDigits /\ text[2] \in HexDigits
         THEN <<16 * HexValue(text[1]) + HexValue(text[2])>>
                  \o HexDecode(SubSeq(text, 3, Len(text)))
         ELSE <<>>

\* sigBuf.length !== expBuf.length || !timingSafeEqual(sigBuf, expBuf)
SignatureMismatch(signature, expected) ==
    \/ Len(HexDecode(signature)) # Len(HexDecode(expected))
    \/ HexDecode(signature) # HexDecode(expected)

\* if (signature && org.fbAppSecret) { ... if (rawBody) { ... } }
VerifiesSignature(signature, rawBody) ==
    signature # Null /\ signature # <<>> /\ rawBody

\* the handler's answer before it looks at the body: 403, or 0 (go on)
SignatureReply(secret, signature, rawBody, leadgenId) ==
    IF VerifiesSignature(signature, rawBody)
           /\ SignatureMismatch(signature, HmacHex(secret, leadgenId))
    THEN 403 ELSE 0

\* campaign.findFirst({ where: { organizationId, fbPageId } }), then
\* if (formIds.length > 0 && !formIds.includes(form_id)) continue
MatchingCampaigns(orgId, pageId, formId) ==
    {cmp \in Campaigns :
        /\ cmp.organizationId = orgId
        /\ cmp.fbPageId = pageId
        /\ (cmp.fbFormIds = {} \/ formId \in cmp.fbFormIds)}

\* a delivery whose handler has ended
LeadDone(code, leadgenId, created) ==
    [orgId |-> Null, signature |-> Null, leadgenId |-> leadgenId,
     campaignId |-> Null, pc |-> "done", contactId |-> 0,
     created |-> created, reply |-> code]

\* The delivery arrives.  The organization and the campaign are read from
\* tables no delivery changes: an organization without secret is acknowledged
\* unprocessed, a failed signature check answered 403, an entry without a
\* matching campaign skipped; otherwise 200 is sent and the entry goes on.
LeadReceive ==
    /\ Len(leadHooks) < MaxLeadHooks
    /\ \E orgId \in OrgIds, signature \in Signatures, leadgenId \in LeadgenIds,
          pageId \in PageIds, formId \in FormIds :
          LET secret == FbAppSecret(orgId)
              found  == MatchingCampaigns(orgId, pageId, formId)
          IN  IF secret = Null
              THEN leadHooks' = Append(leadHooks, LeadDone(200, Null, 0))
              ELSE IF SignatureReply(secret, signature, rawBodyOn, leadgenId) # 0
              THEN leadHooks' = Append(leadHooks, LeadDone(403, Null, 0))
              ELSE IF found = {}
              THEN leadHooks' = Append(leadHooks, LeadDone(200, Null, 0))
              ELSE \E cmp \in found :
                      leadHooks' = Append(leadHooks,
                          [orgId |-> orgId, signature |-> signature,
                           leadgenId |-> leadgenId, campaignId |-> cmp.id,
                           pc |-> "findExisting", contactId |-> 0,
                           created |-> 0, reply |-> 200])
    /\ UNCHANGED <<registryVars, pubLog, deliveries, convVars, clientVars,
                   campaignLeads, rawBodyOn, adminVars>>

\* campaignLead.findUnique({ where: { fbLeadId } })
LeadRecorded(leadgenId) ==
    \E l \in 1..Len(campaignLeads) : campaignLeads[l].fbLeadId = leadgenId

\* where the entry goes once the lead's fields are fetched
AfterFetch(fields) ==
    IF fields.email # Null THEN "findContact"
    ELSE IF fields.name # Null \/ fields.phone # Null THEN "createContact"
    ELSE "createLead"

\* findUnique has answered; a recorded lead is skipped.  Otherwise the lead
\* is fetched from the Graph API, which may fail (the entry is skipped).
LeadFindExisting(h) ==
    LET hook == leadHooks[h]
    IN  /\ hook.pc = "findExisting"
        /\ IF LeadRecorded(hook.leadgenId)
           THEN leadHooks' = [leadHooks EXCEPT
                    ![h] = LeadDone(200, hook.leadgenId, 0)]
           ELSE \E fetched \in BOOLEAN :
                    leadHooks' = [leadHooks EXCEPT ![h] =
                        IF fetched
                        THEN [hook EXCEPT
                                 !.pc = AfterFetch(LeadFields(hook.leadgenId))]
                        ELSE LeadDone(200, hook.leadgenId, 0)]
        /\ UNCHANGED <<registryVars, pubLog, deliveries, convVars, clientVars,
                       campaignLeads, rawBodyOn, adminVars>>

\* contact.findFirst({ where: { organizationId: orgId, email } })
ContactsByEmail(orgId, email) ==
    {c \in 1..Len(contacts) :
        /\ contacts[c].organizationId = orgId
        /\ contacts[c].email = email}

LeadFindContact(h) ==
    LET hook  == leadHooks[h]
        found == ContactsByEmail(hook.orgId, LeadFields(hook.leadgenId).email)
    IN  /\ hook.pc = "findContact"
        /\ IF found = {}
           THEN leadHooks' = [leadHooks EXCEPT ![h].pc = "createContact"]
           ELSE \E c \in found :
                    leadHooks' = [leadHooks EXCEPT ![h].contactId = c,
                                                   ![h].pc = "createLead"]
        /\ UNCHANGED <<registryVars, pubLog, deliveries, convVars, clientVars,
                       campaignLeads, rawBodyOn, adminVars>>

\* contact.create({ data: { organizationId, name, email, phone } })
LeadContactRow(orgId, fields) ==
    [organizationId |-> orgId, channelId |-> Null, externalId |-> Null,
     convStatus |-> Null, assignedToId |-> Null,
     email |-> fields.email, phone |-> fields.phone]

LeadCreateContact(h) ==
    LET hook == leadHooks[h]
    IN  /\ hook.pc = "createContact"
        /\ contacts' = Append(contacts,
               LeadContactRow(hook.orgId, LeadFields(hook.leadgenId)))
        /\ leadHooks' = [leadHooks EXCEPT ![h].contactId = Len(contacts) + 1,
                                          ![h].created = Len(contacts) + 1,
                                          ![h].pc = "createLead"]
        /\ UNCHANGED <<registryVars, pubLog, deliveries, messages, webhooks,
                       agentCalls, clientVars, campaignLeads, rawBodyOn, adminVars>>

\* campaignLead.create: fbLeadId is a unique key of the table (the handler
\* reads it with findUnique), so a second row with the same id is refused
LeadInsert(rows, row) ==
    IF \E l \in 1..Len(rows) : rows[l].fbLeadId = row.fbLeadId
    THEN rows
    ELSE Append(rows, row)

\* campaignLead.create ends the entry; a refused insert rejects the handler's
\* promise after the reply has been sent
LeadCreateLead(h) ==
    LET hook == leadHooks[h]
    IN  /\ hook.pc = "createLead"
        /\ campaignLeads' = LeadInsert(campaignLeads,
               [campaignId |-> hook.campaignId, contactId |-> hook.contactId,
                fbLeadId |-> hook.leadgenId])
        /\ leadHooks' = [leadHooks EXCEPT
               ![h] = LeadDone(200, hook.leadgenId, hook.created)]
        /\ UNCHANGED <<registryVars, pubLog, deliveries, convVars, clientVars,
                       rawBodyOn, adminVars>>

\* the contact table starts empty or holds the contact of lead l1's email
InitialLeadContacts ==
    {<<>>,
     <<[organizationId |-> "org1", channelId |-> Null, externalId |-> Null,
        convStatus |-> "open", assignedToId |-> Null,
        email |-> "e1", phone |-> Null]>>}

InitLead ==
    /\ agentSubscribers = EmptyMap
    /\ widgetSubscribers = EmptyMap
    /\ agentUnsubs = <<>>
    /\ widgetUnsubs = <<>>
    /\ pubLog = <<>>
    /\ deliveries = <<>>
    /\ contacts \in InitialLeadContacts
    /\ messages = <<>>
    /\ webhooks = <<>>
    /\ agentCalls = <<>>
    /\ streams = <<>>
    /\ widgetCalls = <<>>
    /\ messageCalls = <<>>
    /\ leadHooks = <<>>
    /\ campaignLeads = <<>>
    /\ rawBodyOn \in BOOLEAN
    /\ assignConfig = DefaultAssignConfig
    /\ autoCalls = <<>>
    /\ channelStatus = InitialChannelStatus

LeadFindExistingStep == \E h \in 1..Len(leadHooks) : LeadFindExisting(h)

LeadFindContactStep == \E h \in 1..Len(leadHooks) : LeadFindContact(h)

LeadCreateContactStep == \E h \in 1..Len(leadHooks) : LeadCreateContact(h)

LeadCreateLeadStep == \E h \in 1..Len(leadHooks) : LeadCreateLead(h)

NextLead ==
    \/ LeadReceive
    \/ LeadFindExistingStep
    \/ LeadFindContactStep
    \/ LeadCreateContactStep
    \/ LeadCreateLeadStep

SpecLead == InitLead /\ [][NextLead]_vars

----------------------------------------------------------------------------
(* Properties of the bus *)

\* the handler invocations made by the k-th publish call, in order
DeliveriesOf(k) == SelectSeq(deliveries, LAMBDA d : d.pub = k)

HandlersOf(k) == [i \in 1..Len(DeliveriesOf(k)) |-> DeliveriesOf(k)[i].handler]

\* C5: one publish call invokes each of the N handlers registered on the
\* topic exactly once, and each receives the published event.
C5_FanOutComplete ==
    \A k \in 1..Len(pubLog) :
        /\ HandlersOf(k) = pubLog[k].registered
        /\ \A i \in 1..Len(DeliveriesOf(k)) :
               DeliveriesOf(k)[i].event = pubLog[k].event

\* a registration of the widget bus is shared by every subscribe call made
\* with the same contactId and callback
WidgetLive(h) ==
    \E g \in 1..Len(widgetUnsubs) :
        /\ widgetUnsubs[g].contactId = widgetUnsubs[h].contactId
        /\ widgetUnsubs[g].cb = widgetUnsubs[h].cb
        /\ ~widgetUnsubs[g].called

AgentGone(h) == agentUnsubs[h].called

WidgetGone(h) == widgetUnsubs[h].called /\ ~WidgetLive(h)

NewDeliveries == 
    {deliveries'[i] : i \in (Len(deliveries) + 1)..Len(deliveries')}

\* C6: once a subscriber's unsubscribe function has been called, no later
\* publish invokes its handler, and a topic whose last subscriber was removed
\* has no entry in the subscriber map (no topic maps to an empty set).
C6_UnsubscribeCorrect ==
    /\ [](/\ \A t \in DOMAIN agentSubscribers : Len(agentSubscribers[t]) > 0
          /\ \A t \in DOMAIN widgetSubscribers : Len(widgetSubscribers[t]) > 0
          /\ \A h \in 1..Len(agentUnsubs) : AgentGone(h) =>
                ~SetHas(Registered(agentSubscribers, agentUnsubs[h].orgId),
                        agentUnsubs[h].subscriber)
          /\ \A h \in 1..Len(widgetUnsubs) : WidgetGone(h) =>
                ~SetHas(Registered(widgetSubscribers, widgetUnsubs[h].contactId),
                        widgetUnsubs[h].cb))
    /\ [][\A d \in NewDeliveries :
            /\ \A h \in 1..Len(agentUnsubs) :
                   (d.bus = "agent" /\ AgentGone(h)) =>
                       d.handler # agentUnsubs[h].subscriber
            /\ \A h \in 1..Len(widgetUnsubs) :
                   (d.bus = "widget" /\ WidgetGone(h)
                        /\ d.topic = widgetUnsubs[h].contactId) =>
                       d.handler # widgetUnsubs[h].cb]_vars

\* C6 witness: a subscriber that an earlier publish reached has unsubscribed,
\* it was the last one of its topic, and a later publish to the topic found
\* no registration at all.
C6_Witness ==
    \E h \in 1..Len(agentUnsubs) : \E k1, k2 \in 1..Len(pubLog) :
        /\ agentUnsubs[h].called
        /\ k1 < k2
        /\ pubLog[k1].bus = "agent" /\ pubLog[k2].bus = "agent"
        /\ pubLog[k1].topic = agentUnsubs[h].orgId
        /\ pubLog[k2].topic = agentUnsubs[h].orgId
        /\ SetHas(HandlersOf(k1), agentUnsubs[h].subscriber)
        /\ pubLog[k2].registered = <<>>
        /\ agentUnsubs[h].orgId \notin DOMAIN agentSubscribers

\* C7: when a handler throws during a publish, every other handler registered
\* on the topic is still invoked for that event.
C7_ThrowIsolated ==
    \A k \in 1..Len(pubLog) :
        pubLog[k].thrower > 0 =>
            \A i \in 1..Len(pubLog[k].registered) :
                SetHas(HandlersOf(k), pubLog[k].registered[i])

----------------------------------------------------------------------------
(* Properties of WhatsApp ingestion and of the agent actions *)

IsNewMessage(k) == pubLog[k].bus = "agent" /\ pubLog[k].event.type = "new_message"

IsConvUpdated(k) == pubLog[k].bus = "agent" /\ pubLog[k].event.type = "conv_updated"

\* webhook r takes the step that leaves program point `at`
WaLeaves(r, at) == webhooks[r].pc = at /\ webhooks'[r].pc # at

\* C1: a message id (key.id) delivered more than once to one organization
\* yields one stored Message with that externalId and one new_message
\* publish; a later delivery stores nothing and publishes nothing.
C1_IdempotentIngestion ==
    /\ \A i, j \in 1..Len(messages) :
          (i # j /\ messages[i].organizationId = messages[j].organizationId)
              => messages[i].externalId # messages[j].externalId
    /\ \A k1, k2 \in 1..Len(pubLog) :
          (k1 # k2 /\ IsNewMessage(k1) /\ IsNewMessage(k2)
                /\ pubLog[k1].topic = pubLog[k2].topic)
              => messages[pubLog[k1].event.message.id].externalId
                    # messages[pubLog[k2].event.message.id].externalId

\* C2: processing an inbound message for an existing contact that the handler
\* found open or pending leaves convStatus as found (the handler's write
\* stores the status it read) and publishes no conv_updated: the handler
\* finishes with that write and never reaches the conv_updated publish.
C2_OpenPendingUnchanged ==
    /\ [](\A r \in 1..Len(webhooks) :
            webhooks[r].pc = "publishConv" =>
                webhooks[r].contact.convStatus \notin {"open", "pending"})
    /\ [][\A r \in 1..Len(webhooks) :
            (WaLeaves(r, "updateStatus")
                /\ webhooks[r].contact.convStatus \in {"open", "pending"})
            => /\ contacts'[webhooks[r].contact.id].convStatus
                      = webhooks[r].contact.convStatus
               /\ contacts[webhooks[r].contact.id].convStatus
                      = webhooks[r].contact.convStatus
                    => contacts' = contacts
               /\ webhooks'[r].pc = "done"
               /\ pubLog' = pubLog]_vars

\* C2 witness: one inbound message for the stored open contact has been
\* processed to the end, alone: the contact is open and the only event
\* published is the new_message.
C2_Witness ==
    /\ Len(webhooks) = 1 /\ webhooks[1].pc = "done" /\ agentCalls = <<>>
    /\ Len(messages) = 1 /\ messages[1].direction = "inbound"
    /\ Len(contacts) = 1 /\ contacts[1].convStatus = "open"
    /\ messages[1].contactId = 1
    /\ Len(pubLog) = 1 /\ IsNewMessage(1)

\* C3: processing an inbound message for an existing contact that the handler
\* found resolved or unset writes convStatus pending and then publishes one
\* conv_updated event with convStatus pending on the organization's topic.
C3_ResolvedBecomesPending ==
    [][\A r \in 1..Len(webhooks) :
        /\ (WaLeaves(r, "updateStatus")
                /\ webhooks[r].contact.convStatus \in {"resolved", Null})
            => /\ contacts'[webhooks[r].contact.id].convStatus = "pending"
               /\ webhooks'[r].pc = "publishConv"
               /\ pubLog' = pubLog
        /\ WaLeaves(r, "publishConv")
            => /\ webhooks'[r].pc = "done"
               /\ Len(pubLog') = Len(pubLog) + 1
               /\ pubLog'[Len(pubLog')].bus = "agent"
               /\ pubLog'[Len(pubLog')].topic = webhooks[r].organizationId
               /\ pubLog'[Len(pubLog')].event.type = "conv_updated"
               /\ pubLog'[Len(pubLog')].event.contactId = webhooks[r].contact.id
               /\ pubLog'[Len(pubLog')].event.convStatus = "pending"]_vars

\* C3 witness: one inbound message for the stored contact has been processed
\* to the end, alone: the contact is pending and the events published are the
\* new_message and then one conv_updated with convStatus pending.
C3_Witness ==
    /\ Len(webhooks) = 1 /\ webhooks[1].pc = "done" /\ agentCalls = <<>>
    /\ Len(contacts) = 1 /\ contacts[1].convStatus = "pending"
    /\ Len(pubLog) = 2 /\ IsNewMessage(1) /\ IsConvUpdated(2)
    /\ pubLog[2].event.convStatus = "pending"
    /\ pubLog[2].topic = "org1"

\* C4: no step of the webhook handler changes the assignedToId of a stored
\* contact, whatever the contact's status and whatever agent calls run
\* between the handler's steps.
C4_InboundKeepsAssignee ==
    [][webhooks' # webhooks =>
          \A c \in 1..Len(contacts) :
              contacts'[c].assignedToId = contacts[c].assignedToId]_vars

\* C4 witness: an agent assigned the contact while the handler was between
\* its read and its status write; the handler has written the status and
\* the contact is still assigned.
C4_Witness ==
    \E r \in 1..Len(webhooks) : \E k \in 1..Len(pubLog) :
        /\ webhooks[r].pc = "publishConv"
        /\ webhooks[r].contact.assignedToId = Null
        /\ IsConvUpdated(k)
        /\ pubLog[k].event.contactId = webhooks[r].contact.id
        /\ pubLog[k].event.assignedToId = "u1"
        /\ contacts[webhooks[r].contact.id].assignedToId = "u1"
        /\ contacts[webhooks[r].contact.id].convStatus = "pending"

\* C8: resolve writes convStatus resolved and assignedToId null in one update,
\* from any prior status and assignment, and then publishes one conv_updated
\* event with convStatus resolved and assignedToId null on the topic of the
\* request's organization.
C8_Resolve ==
    [][/\ (Len(agentCalls') = Len(agentCalls) + 1
              /\ agentCalls'[Len(agentCalls')].action = "resolve")
          => LET id == agentCalls'[Len(agentCalls')].id
             IN  /\ contacts'[id].convStatus = "resolved"
                 /\ contacts'[id].assignedToId = Null
                 /\ \A c \in 1..Len(contacts) : c # id => contacts'[c] = contacts[c]
                 /\ pubLog' = pubLog
       /\ \A a \in 1..Len(agentCalls) :
            (agentCalls[a].pc = "publish" /\ agentCalls'[a].pc # "publish"
                /\ agentCalls[a].action = "resolve")
            => /\ agentCalls'[a].pc = "done"
               /\ Len(pubLog') = Len(pubLog) + 1
               /\ pubLog'[Len(pubLog')].bus = "agent"
               /\ pubLog'[Len(pubLog')].topic = agentCalls[a].orgId
               /\ pubLog'[Len(pubLog')].event =
                     [type |-> "conv_updated", contactId |-> agentCalls[a].id,
                      convStatus |-> "resolved", assignedToId |-> Null]]_vars

\* C8 witness: a contact that an assign call gave to agent u1 has then been
\* resolved: it is resolved and unassigned and the resolve's event is out.
C8_Witness ==
    \E k1, k2 \in 1..Len(pubLog) :
        /\ k1 < k2
        /\ IsConvUpdated(k1) /\ IsConvUpdated(k2)
        /\ pubLog[k1].event.contactId = pubLog[k2].event.contactId
        /\ pubLog[k1].event.assignedToId = "u1"
        /\ pubLog[k2].event.convStatus = "resolved"
        /\ pubLog[k2].event.assignedToId = Null
        /\ contacts[pubLog[k2].event.contactId].convStatus = "resolved"
        /\ contacts[pubLog[k2].event.contactId].assignedToId = Null
        /\ \A a \in 1..Len(agentCalls) : agentCalls[a].pc = "done"

\* C9: an organization never holds two contacts with the same externalId,
\* also after two concurrent first messages from one remoteJid.
C9_ContactUniquePerExternalId ==
    \A c1, c2 \in 1..Len(contacts) :
        (c1 # c2 /\ contacts[c1].organizationId = contacts[c2].organizationId)
            => contacts[c1].externalId # contacts[c2].externalId

\* C10: when an agent open or resolve commits between the handler's read of
\* the contact and the handler's status write, that write does not replace
\* the convStatus the agent set, unless the handler had read resolved
\* (or unset, which the handler treats like resolved).
C10_InboundKeepsAgentStatus ==
    [][\A r \in 1..Len(webhooks) : \A a \in 1..Len(agentCalls) :
        (/\ WaLeaves(r, "updateStatus")
         /\ agentCalls[a].pc = "publish"
         /\ agentCalls[a].action \in {"open", "resolve"}
         /\ agentCalls[a].id = webhooks[r].contact.id
         /\ contacts[webhooks[r].contact.id].convStatus
                = agentCalls[a].contact.convStatus
         /\ webhooks[r].contact.convStatus
                # contacts[webhooks[r].contact.id].convStatus
         /\ webhooks[r].contact.convStatus \notin {"resolved", Null})
        => contacts'[webhooks[r].contact.id].convStatus
                = contacts[webhooks[r].contact.id].convStatus]_vars

\* C12: an assign, resolve or open call changes a contact only if the
\* contact belongs to the organization resolved for the caller's request, and
\* publishes a conv_updated event only about a contact of that organization.
C12_AgentActionsTenantScoped ==
    [][/\ Len(agentCalls') = Len(agentCalls) + 1
          => \A c \in 1..Len(contacts) :
                contacts'[c] # contacts[c]
                    => contacts[c].organizationId
                           = agentCalls'[Len(agentCalls')].orgId
       /\ \A a \in 1..Len(agentCalls) :
            (agentCalls[a].pc = "publish" /\ agentCalls'[a].pc = "done")
            => contacts[agentCalls[a].id].organizationId
                   = agentCalls[a].orgId]_vars

\* C17: the webhook answers 200 to every request, whatever the event kind,
\* also for an unknown instance and when a storage operation fails.
C17_AlwaysAcknowledged ==
    \A r \in 1..Len(webhooks) :
        webhooks[r].pc = "done" => webhooks[r].reply = 200

\* '+' followed by the number part of the JID
ExpectedPhone(jid) ==
    CASE jid = "5511999990000@s.whatsapp.net" ->
            <<"+", "5", "5", "1", "1", "9", "9", "9", "9", "9",
              "0", "0", "0", "0">>

\* a record without one of its fields
Without(rec, field) == [f \in DOMAIN rec \ {field} |-> rec[f]]

\* C18: a message from a remoteJid for which the handler found no contact in
\* the organization creates one Contact (convStatus pending, phone '+' and
\* the JID's number part, channelId of the receiving channel), stores one
\* Message for it and publishes exactly one event, a new_message carrying the
\* contact summary; a message for a contact that was found publishes a
\* new_message without the contact summary.
C18_NewContactIngestion ==
    [][/\ Len(webhooks') = Len(webhooks) + 1
          => LET w == webhooks'[Len(webhooks')]
             IN  /\ w.pc = "createContact"
                      <=> ContactsByExternalId(w.organizationId,
                                               w.key.remoteJid) = {}
                 /\ w.pc \in {"createContact", "createMessage"}
                 /\ ~w.isNewContact
       /\ \A r \in 1..Len(webhooks) :
            LET w == webhooks[r]
            IN  /\ WaLeaves(r, "createContact")
                    => /\ Len(contacts') = Len(contacts) + 1
                       /\ SubSeq(contacts', 1, Len(contacts)) = contacts
                       /\ Without(contacts'[Len(contacts')], "name") =
                              [organizationId |-> w.organizationId,
                               channelId |-> w.channelId,
                               externalId |-> w.key.remoteJid,
                               convStatus |-> "pending",
                               assignedToId |-> Null,
                               phone |-> ExpectedPhone(w.key.remoteJid)]
                       /\ webhooks'[r].isNewContact
                       /\ webhooks'[r].contact.id = Len(contacts')
                       /\ webhooks'[r].pc = "createMessage"
                       /\ messages' = messages /\ pubLog' = pubLog
                /\ WaLeaves(r, "createMessage")
                    => /\ Len(messages') = Len(messages) + 1
                       /\ SubSeq(messages', 1, Len(messages)) = messages
                       /\ messages'[Len(messages')].contactId = w.contact.id
                       /\ messages'[Len(messages')].direction =
                              (IF w.key.fromMe THEN "outbound" ELSE "inbound")
                       /\ webhooks'[r].pc = "publishMessage"
                       /\ contacts' = contacts /\ pubLog' = pubLog
                /\ WaLeaves(r, "publishMessage")
                    => /\ Len(pubLog') = Len(pubLog) + 1
                       /\ pubLog'[Len(pubLog')].bus = "agent"
                       /\ pubLog'[Len(pubLog')].topic = w.organizationId
                       /\ pubLog'[Len(pubLog')].event.type = "new_message"
                       /\ pubLog'[Len(pubLog')].event.contactId = w.contact.id
                       /\ pubLog'[Len(pubLog')].event.message.id = w.savedMsg
                       /\ "contact" \in DOMAIN pubLog'[Len(pubLog')].event
                              <=> w.isNewContact
                       /\ w.isNewContact
                              => /\ Without(pubLog'[Len(pubLog')].event.contact,
                                            "name") =
                                        [id |-> w.contact.id,
                                         phone |-> ExpectedPhone(w.key.remoteJid),
                                         externalId |-> w.key.remoteJid,
                                         channelId |-> w.channelId,
                                         convStatus |-> "pending"]
                                 /\ webhooks'[r].pc = "done"
                       /\ contacts' = contacts /\ messages' = messages]_vars

\* C18 witness: the first inbound message of a remoteJid was ingested into
\* an empty contact table (one contact, one event: the new_message with the
\* contact summary), and then a second message of that remoteJid, published
\* without the summary.
C18_Witness ==
    /\ Len(webhooks) = 2
    /\ \A r \in 1..2 : webhooks[r].pc = "done" /\ webhooks[r].reply = 200
    /\ Len(contacts) = 1
    /\ contacts[1].convStatus = "pending"
    /\ contacts[1].phone = ExpectedPhone(contacts[1].externalId)
    /\ contacts[1].channelId = "ch1"
    /\ Len(messages) = 2
    /\ \A m \in 1..2 : messages[m].contactId = 1
                          /\ messages[m].direction = "inbound"
    /\ Len(pubLog) = 2 /\ IsNewMessage(1) /\ IsNewMessage(2)
    /\ "contact" \in DOMAIN pubLog[1].event
    /\ pubLog[1].event.contact.id = 1
    /\ "contact" \notin DOMAIN pubLog[2].event

----------------------------------------------------------------------------
(* Properties of the streams, the widget calls and POST /messages *)

\* the bus holds the registration stream s made
StreamRegistered(s) ==
    IF streams[s].kind = "agent"
    THEN SetHas(Registered(agentSubscribers, streams[s].topic), AgentSubscriber(s))
    ELSE SetHas(Registered(widgetSubscribers, streams[s].topic), WidgetCallback(s))

\* C11: a bus subscription or a heartbeat timer exists only for a stream
\* whose connection is still open: a close at any point after the request
\* arrived, also while the handler awaits its authorization lookups, leaves
\* neither behind.
C11_StreamCleanup ==
    \A s \in 1..Len(streams) :
        (StreamRegistered(s) \/ streams[s].heartbeat) => streams[s].open

\* the presented key is the key of some widget channel
KnownKey(apiKey) == \E ch \in ApiChannels : ch.apiKey = apiKey

\* the named contact is a contact of the channel owning the presented key
ContactOfKey(apiKey, contactId) ==
    \E ch \in ApiChannels :
        /\ ch.apiKey = apiKey
        /\ contactId \in 1..Len(contacts)
        /\ contacts[contactId].channelId = ch.id

\* the answer C13 expects for a presented key and a named contact
ExpectedWidgetReply(apiKey, contactId, served) ==
    IF ~KnownKey(apiKey) THEN {401}
    ELSE IF ~ContactOfKey(apiKey, contactId) THEN {403}
    ELSE served

\* C13: GET /widget/messages, POST /widget/messages and GET /widget/sse are
\* served only for a contact of the channel owning the presented key; an
\* unknown key is answered 401 and a contact of another channel 403, and the
\* step that rejects stores no message, publishes no event and registers no
\* subscription.
C13_WidgetAuth ==
    /\ [](/\ \A c \in 1..Len(widgetCalls) :
               LET call == widgetCalls[c]
               IN  /\ call.reply \in ExpectedWidgetReply(call.apiKey,
                                         call.contactId, {0, 200, 201})
                   /\ call.reply \in {401, 403}
                          => call.savedMsg = 0 /\ call.result = {}
          /\ \A s \in 1..Len(streams) :
               LET st == streams[s]
               IN  st.kind = "widget"
                   => /\ st.pc # "auth"
                          => st.reply \in ExpectedWidgetReply(st.apiKey,
                                              st.topic, {200})
                      /\ (StreamRegistered(s) \/ st.heartbeat)
                          => ContactOfKey(st.apiKey, st.topic))
    /\ [][/\ (Len(widgetCalls') = Len(widgetCalls) + 1
                 /\ widgetCalls'[Len(widgetCalls')].reply \in {401, 403})
             => /\ messages' = messages
                /\ pubLog' = pubLog
                /\ registryVars' = registryVars
          /\ \A s \in 1..Len(streams) :
               (streams[s].kind = "widget" /\ streams[s].pc = "auth"
                    /\ streams'[s].reply \in {401, 403})
               => /\ messages' = messages
                  /\ pubLog' = pubLog
                  /\ registryVars' = registryVars]_vars

\* C13 witness: a POST /widget/messages naming a contact of another channel
\* was answered 403 and a stream request with an unknown key 401; no message
\* is stored, nothing was published and nothing is registered.
C13_Witness ==
    /\ \E c \in 1..Len(widgetCalls) :
          /\ widgetCalls[c].method = "POST"
          /\ widgetCalls[c].apiKey = "k1"
          /\ widgetCalls[c].contactId \in 1..Len(contacts)
          /\ contacts[widgetCalls[c].contactId].channelId = "w2"
          /\ widgetCalls[c].reply = 403
    /\ \E s \in 1..Len(streams) :
          /\ streams[s].kind = "widget"
          /\ streams[s].apiKey = "kx"
          /\ streams[s].pc = "done"
          /\ streams[s].reply = 401
    /\ messages = <<>>
    /\ pubLog = <<>>
    /\ widgetSubscribers = EmptyMap

\* C19: an inbound message posted by a widget visitor passes through the
\* inbound transition: once POST /widget/messages has answered 201, the
\* contact is not resolved (it became pending; no call of this specification
\* sets a contact resolved).
C19_WidgetInboundTransition ==
    \A c \in 1..Len(widgetCalls) :
        (widgetCalls[c].method = "POST" /\ widgetCalls[c].reply = 201)
            => contacts[widgetCalls[c].contactId].convStatus # "resolved"

\* the publishes on the contact topic that carry stored message m
WidgetPublishesOf(m) ==
    {k \in 1..Len(pubLog) : pubLog[k].bus = "widget" /\ pubLog[k].event.id = m}

ApiChannelIds == {ch.id : ch \in ApiChannels}

\* C20: a message saved through POST /messages is published to the contact
\* topic exactly when its direction is outbound and its channel is a widget
\* (type api) channel, once, on the topic of its contact; a message stored
\* by POST /widget/messages is never published to the contact topic.
C20_WidgetPublishRule ==
    /\ \A k \in 1..Len(pubLog) :
          pubLog[k].bus = "widget"
              => LET m == messages[pubLog[k].event.id]
                 IN  /\ m.direction = "outbound"
                     /\ m.channelId \in ApiChannelIds
                     /\ pubLog[k].topic = m.contactId
                     /\ pubLog[k].event.contactId = m.contactId
    /\ \A c \in 1..Len(messageCalls) :
          LET call == messageCalls[c]
          IN  (call.pc = "done" /\ call.savedMsg # 0)
                  => Cardinality(WidgetPublishesOf(call.savedMsg)) =
                        (IF messages[call.savedMsg].direction = "outbound"
                              /\ messages[call.savedMsg].channelId \in ApiChannelIds
                         THEN 1 ELSE 0)
    /\ \A c \in 1..Len(widgetCalls) :
          widgetCalls[c].savedMsg # 0
              => WidgetPublishesOf(widgetCalls[c].savedMsg) = {}

\* C20 witness: an agent's outbound message for a widget contact was saved
\* and published on the contact's topic, where the visitor's open stream
\* received it.
C20_Witness ==
    \E c \in 1..Len(messageCalls) : \E k \in 1..Len(pubLog) :
        /\ messageCalls[c].pc = "done" /\ messageCalls[c].reply = 201
        /\ messages[messageCalls[c].savedMsg].direction = "outbound"
        /\ messages[messageCalls[c].savedMsg].channelId = "w1"
        /\ k \in WidgetPublishesOf(messageCalls[c].savedMsg)
        /\ Len(DeliveriesOf(k)) = 1
        /\ DeliveriesOf(k)[1].event.id = messageCalls[c].savedMsg

\* content detection found no content and no media type
EmptyNonMedia(content, msgType) ==
    /\ content = ""
    /\ msgType \notin {"image", "audio", "video", "document", "sticker"}

\* C22: a MESSAGES_UPSERT message whose normalized content is empty and whose
\* type is none of image, audio, video, document, sticker is dropped: the
\* request ends at once, no Contact is created or updated, no Message is
\* stored and nothing is published.
C22_EmptyNonMediaDropped ==
    /\ [](/\ \A r \in 1..Len(webhooks) :
                (webhooks[r].msgType # Null
                    /\ EmptyNonMedia(webhooks[r].content, webhooks[r].msgType))
                => /\ webhooks[r].pc = "done"
                   /\ webhooks[r].reply = 200
                   /\ webhooks[r].savedMsg = 0
          /\ \A m \in 1..Len(messages) :
                ~EmptyNonMedia(messages[m].content, messages[m].type))
    /\ [][(/\ Len(webhooks') = Len(webhooks) + 1
            /\ webhooks'[Len(webhooks')].msgType # Null
            /\ EmptyNonMedia(webhooks'[Len(webhooks')].content,
                             webhooks'[Len(webhooks')].msgType))
           => /\ contacts' = contacts
              /\ messages' = messages
              /\ pubLog' = pubLog
              /\ deliveries' = deliveries]_vars

\* C22 witness: a message without content and without media was received
\* and dropped, and the tables and the bus are as they were.
C22_Witness ==
    /\ \E r \in 1..Len(webhooks) :
          /\ webhooks[r].msgType = "text"
          /\ webhooks[r].content = ""
          /\ webhooks[r].pc = "done"
    /\ contacts = <<>>
    /\ messages = <<>>
    /\ pubLog = <<>>

\* C23: a handler of an outbound (fromMe) message never changes the name of
\* an existing contact, and the contact it creates is named after the number
\* of the remoteJid, never after pushName; only a handler of an inbound
\* message writes pushName as a contact's name.
C23_OutboundKeepsName ==
    [][\A r \in 1..Len(webhooks) :
          LET w == webhooks[r]
          IN  (w.pc # "done" /\ webhooks'[r] # w)
              => /\ \A c \in 1..Len(contacts) :
                       contacts'[c].name # contacts[c].name
                       => /\ ~w.key.fromMe
                          /\ w.pushName # <<>>
                          /\ contacts'[c].name = w.pushName
                          /\ c = w.contact.id
                 /\ Len(contacts') = Len(contacts) + 1
                       => contacts'[Len(contacts')].name =
                              IF w.key.fromMe \/ w.pushName = <<>>
                              THEN Tail(ExpectedPhone(w.key.remoteJid))
                              ELSE w.pushName]_vars

\* C23 witness: an outbound message with a pushName was ingested for an
\* existing contact, whose name is still the one it had.
C23_Witness ==
    /\ Len(contacts) = 1
    /\ contacts[1].name = <<"A", "n", "a">>
    /\ \E m \in 1..Len(messages) :
          /\ messages[m].direction = "outbound"
          /\ messages[m].contactId = 1
    /\ \E k \in 1..Len(pubLog) :
          /\ pubLog[k].event.type = "new_message"
          /\ pubLog[k].event.contactName = <<"A", "n", "a">>

\* C30: assign writes the given agent, or null, as the contact's assignedToId
\* and leaves its convStatus (and the other contacts) as they are; it then
\* publishes exactly one conv_updated event on the topic of the request's
\* organization, carrying the convStatus of the row the update returned and
\* the new assignedToId.
C30_Assign ==
    [][/\ (Len(agentCalls') = Len(agentCalls) + 1
              /\ agentCalls'[Len(agentCalls')].action = "assign")
          => LET call == agentCalls'[Len(agentCalls')]
             IN  /\ call.assignedToId \in Assignees
                 /\ contacts'[call.id].assignedToId = call.assignedToId
                 /\ contacts'[call.id].convStatus = contacts[call.id].convStatus
                 /\ Without(contacts'[call.id], "assignedToId")
                        = Without(contacts[call.id], "assignedToId")
                 /\ call.contact.convStatus = contacts[call.id].convStatus
                 /\ \A c \in 1..Len(contacts) :
                        c # call.id => contacts'[c] = contacts[c]
                 /\ pubLog' = pubLog
       /\ \A a \in 1..Len(agentCalls) :
            (agentCalls[a].pc = "publish" /\ agentCalls'[a].pc # "publish"
                /\ agentCalls[a].action = "assign")
            => /\ agentCalls'[a].pc = "done"
               /\ Len(pubLog') = Len(pubLog) + 1
               /\ pubLog'[Len(pubLog')].bus = "agent"
               /\ pubLog'[Len(pubLog')].topic = agentCalls[a].orgId
               /\ pubLog'[Len(pubLog')].event =
                     [type |-> "conv_updated", contactId |-> agentCalls[a].id,
                      convStatus |-> agentCalls[a].contact.convStatus,
                      assignedToId |-> agentCalls[a].assignedToId]
               /\ contacts' = contacts]_vars

\* C30 witness: a pending, unassigned contact was assigned to agent u1 and
\* the call has ended: the contact is still pending, it is assigned to u1,
\* and the one event published says so.
C30_Witness ==
    /\ Len(pubLog) = 1
    /\ Len(agentCalls) = 1
    /\ agentCalls[1].pc = "done"
    /\ pubLog[1].event = [type |-> "conv_updated", contactId |-> 1,
                          convStatus |-> "pending", assignedToId |-> "u1"]
    /\ Len(contacts) = 1
    /\ contacts[1].convStatus = "pending"
    /\ contacts[1].assignedToId = "u1"
    /\ webhooks = <<>>

\* C24: two session requests with the same API key and the same email answer
\* the same contactId, and there is never more than one Contact for one
\* (organization, channel, email), however the requests interleave.
C24_SessionIdempotent ==
    /\ \A c1, c2 \in 1..Len(widgetCalls) :
          (/\ widgetCalls[c1].pc = "done" /\ widgetCalls[c2].pc = "done"
           /\ widgetCalls[c1].reply \in {200, 201}
           /\ widgetCalls[c2].reply \in {200, 201}
           /\ widgetCalls[c1].apiKey = widgetCalls[c2].apiKey
           /\ widgetCalls[c1].email = widgetCalls[c2].email)
          => widgetCalls[c1].contactId = widgetCalls[c2].contactId
    /\ \A r1, r2 \in 1..Len(contacts) :
          (/\ contacts[r1].organizationId = contacts[r2].organizationId
           /\ contacts[r1].channelId = contacts[r2].channelId
           /\ contacts[r1].email = contacts[r2].email)
          => r1 = r2

\* C25: lead ingestion never leaves an organization with two Contacts that
\* have the same email, however the deliveries interleave, and the handler of
\* a lead without email always creates a new Contact.
C25_ContactUniquePerEmail ==
    /\ [](\A c1, c2 \in 1..Len(contacts) :
            (/\ c1 # c2
             /\ contacts[c1].organizationId = contacts[c2].organizationId
             /\ contacts[c1].email # Null)
            => contacts[c1].email # contacts[c2].email)
    /\ [][\A h \in 1..Len(leadHooks) :
            (/\ leadHooks[h].pc \in {"findContact", "createContact"}
             /\ leadHooks'[h].pc = "createLead"
             /\ LeadFields(leadHooks[h].leadgenId).email = Null)
            => /\ Len(contacts') = Len(contacts) + 1
               /\ leadHooks'[h].contactId = Len(contacts')]_vars

\* a is the beginning of b
IsPrefix(a, b) == Len(a) <= Len(b) /\ SubSeq(b, 1, Len(a)) = a

\* the position of an element of a duplicate-free sequence
PosIn(s, e) == CHOOSE i \in 1..Len(s) : s[i] = e

\* the notification filter as the claim words it
PassesFilter(member, userId, event) ==
    \/ event.type = "new_message" /\ member.notifyNewMessage
    \/ /\ event.type = "conv_updated"
       /\ \/ event.assignedToId = userId /\ member.notifyAssigned
          \/ event.convStatus = "resolved" /\ member.notifyResolved

\* the registrations of stream s in the dashboard registry
SubscriptionsOf(s) ==
    {<<t, p>> \in OrgIds \X (1..MaxClientCalls + 1) :
        /\ p <= Len(Registered(agentSubscribers, t))
        /\ Registered(agentSubscribers, t)[p].sid = s}

\* C26: an event published on an organization topic is written once to the
\* connection of each dashboard stream subscribed to the topic whose member
\* filter it passes, and to no other connection; a dashboard stream holds
\* one subscription while it is streaming and open, and never more than one,
\* whatever its filter.
C26_FilteredWrites ==
    /\ [](\A s \in 1..Len(streams) :
            streams[s].kind = "agent"
            => /\ Cardinality(SubscriptionsOf(s)) <= 1
               /\ (streams[s].pc = "streaming" /\ streams[s].open)
                    => Cardinality(SubscriptionsOf(s)) = 1)
    /\ [][(Len(pubLog') = Len(pubLog) + 1
              /\ pubLog'[Len(pubLog')].bus = "agent")
          => LET orgId == pubLog'[Len(pubLog')].topic
                 event == pubLog'[Len(pubLog')].event
             IN  \A s \in 1..Len(streams) :
                   IF /\ streams[s].kind = "agent"
                      /\ SubscriptionsOf(s) # {}
                      /\ streams[s].topic = orgId
                      /\ PassesFilter(streams[s].member, streams[s].userId,
                                      event)
                   THEN streams'[s].written = Append(streams[s].written, event)
                   ELSE streams'[s].written = streams[s].written]_vars

\* C26 witness: a member who wants assignments but not resolutions is
\* streaming; a conversation resolved while assigned to that member was
\* published and written to the connection.
C26_Witness ==
    \E s \in 1..Len(streams) :
        /\ streams[s].kind = "agent"
        /\ streams[s].pc = "streaming"
        /\ streams[s].member.notifyAssigned
        /\ ~streams[s].member.notifyResolved
        /\ Len(streams[s].written) = 1
        /\ streams[s].written[1].type = "conv_updated"
        /\ streams[s].written[1].convStatus = "resolved"
        /\ streams[s].written[1].assignedToId = streams[s].userId

\* C27: handlers are invoked in the order of the publish calls, so every
\* subscriber receives the events of a topic in publish order; within one
\* publish call the handlers run in registration order: an earlier
\* registration stands before a later one in the topic's set and the call
\* walks the set from its beginning.
C27_DeliveryOrder ==
    /\ [](/\ \A i, j \in 1..Len(deliveries) :
                i < j => deliveries[i].pub <= deliveries[j].pub
          /\ \A k \in 1..Len(pubLog) :
                IsPrefix(HandlersOf(k), pubLog[k].registered)
          /\ \A t \in DOMAIN agentSubscribers :
                \A p, q \in 1..Len(agentSubscribers[t]) :
                    p < q => agentSubscribers[t][p].sid
                                < agentSubscribers[t][q].sid)
    /\ [][\A t \in WidgetTopics :
            LET old == Registered(widgetSubscribers, t)
                new == Registered(widgetSubscribers', t)
            IN  \A x, y \in Callbacks :
                  (SetHas(new, x) /\ SetHas(new, y) /\ SetHas(old, x))
                  => IF SetHas(old, y)
                     THEN (PosIn(old, x) < PosIn(old, y))
                              <=> (PosIn(new, x) < PosIn(new, y))
                     ELSE PosIn(new, x) < PosIn(new, y)]_vars

\* C27 witness: two handlers registered on org1, first 1 then 2, and two
\* publish calls: the four invocations are 1, 2 with the first event and
\* then 1, 2 with the second.
C27_Witness ==
    /\ Len(deliveries) = 4
    /\ \A i \in 1..4 : deliveries[i].bus = "agent"
    /\ deliveries[1].handler.sid = 1 /\ deliveries[1].event.id = deliveries[1].pub
    /\ deliveries[2].handler.sid = 2 /\ deliveries[2].pub = deliveries[1].pub
    /\ deliveries[3].handler.sid = 1 /\ deliveries[3].pub > deliveries[1].pub
    /\ deliveries[4].handler.sid = 2 /\ deliveries[4].pub = deliveries[3].pub

\* C28: the bus keeps no event.  A publish call on a topic without
\* subscribers invokes no handler and leaves both registries as they are; the
\* only invocations a step makes are those of the publish call of that step,
\* with its event and to the handlers registered when it was made, so a
\* handler subscribed later is never invoked with an earlier event.
C28_NoEventStored ==
    [][/\ (Len(pubLog') = Len(pubLog) + 1
              /\ pubLog'[Len(pubLog')].registered = <<>>)
          => /\ deliveries' = deliveries
             /\ registryVars' = registryVars
       /\ \A d \in NewDeliveries :
            /\ Len(pubLog') = Len(pubLog) + 1
            /\ d.pub = Len(pubLog')
            /\ d.event = pubLog'[Len(pubLog')].event
            /\ d.topic = pubLog'[Len(pubLog')].topic
            /\ d.bus = pubLog'[Len(pubLog')].bus
            /\ IF d.bus = "agent"
               THEN SetHas(Registered(agentSubscribers, d.topic), d.handler)
               ELSE SetHas(Registered(widgetSubscribers, d.topic), d.handler)
       /\ registryVars' # registryVars
          => deliveries' = deliveries /\ pubLog' = pubLog]_vars

\* C28 witness: an event was published on org1 while nobody was subscribed,
\* a handler subscribed afterwards, and a second event was published: the
\* handler was invoked once, with the second event.
C28_Witness ==
    /\ Len(pubLog) = 2
    /\ pubLog[1].bus = "agent" /\ pubLog[1].topic = "org1"
    /\ pubLog[1].registered = <<>>
    /\ pubLog[2].bus = "agent" /\ pubLog[2].topic = "org1"
    /\ Len(pubLog[2].registered) = 1
    /\ Len(deliveries) = 1
    /\ deliveries[1].event = pubLog[2].event
    /\ deliveries[1].event # pubLog[1].event

\* C29: a handler is invoked only by publish calls of its own bus on the
\* topic it subscribed to: an event of one organization never reaches a
\* handler of another, and the organization topics and the contact topics
\* are apart even where an organization id and a contact id are the same
\* string.
C29_TopicsIsolated ==
    \A i \in 1..Len(deliveries) :
        LET d == deliveries[i]
        IN  /\ pubLog[d.pub].bus = d.bus
            /\ pubLog[d.pub].topic = d.topic
            /\ d.bus = "agent"
                  => \E h \in 1..Len(agentUnsubs) :
                        /\ agentUnsubs[h].subscriber.sid = d.handler.sid
                        /\ agentUnsubs[h].orgId = d.topic
            /\ d.bus = "widget"
                  => /\ d.handler \in Callbacks
                     /\ \E h \in 1..Len(widgetUnsubs) :
                           /\ widgetUnsubs[h].cb = d.handler
                           /\ widgetUnsubs[h].contactId = d.topic

\* C29 witness: a dashboard handler on organization org1, a widget handler
\* on the contact topic spelled org1, one publish on each: each handler was
\* invoked once, by the publish of its own bus.
C29_Witness ==
    /\ Len(agentUnsubs) = 1 /\ agentUnsubs[1].orgId = "org1"
    /\ Len(widgetUnsubs) = 1 /\ widgetUnsubs[1].contactId = "org1"
    /\ Len(pubLog) = 2
    /\ pubLog[1].topic = "org1" /\ pubLog[2].topic = "org1"
    /\ pubLog[1].bus # pubLog[2].bus
    /\ Len(deliveries) = 2
    /\ \A i \in 1..2 : deliveries[i].bus = pubLog[deliveries[i].pub].bus

\* C31: open writes convStatus open whatever the status was and leaves the
\* contact's assignedToId (and the other contacts) as they are; it then
\* publishes exactly one conv_updated event on the topic of the request's
\* organization, with convStatus open and the assignedToId of the row the
\* update returned.
C31_Open ==
    [][/\ (Len(agentCalls') = Len(agentCalls) + 1
              /\ agentCalls'[Len(agentCalls')].action = "open")
          => LET call == agentCalls'[Len(agentCalls')]
             IN  /\ contacts'[call.id].convStatus = "open"
                 /\ contacts'[call.id].assignedToId
                        = contacts[call.id].assignedToId
                 /\ Without(contacts'[call.id], "convStatus")
                        = Without(contacts[call.id], "convStatus")
                 /\ call.contact.assignedToId = contacts[call.id].assignedToId
                 /\ \A c \in 1..Len(contacts) :
                        c # call.id => contacts'[c] = contacts[c]
                 /\ pubLog' = pubLog
       /\ \A a \in 1..Len(agentCalls) :
            (agentCalls[a].pc = "publish" /\ agentCalls'[a].pc # "publish"
                /\ agentCalls[a].action = "open")
            => /\ agentCalls'[a].pc = "done"
               /\ Len(pubLog') = Len(pubLog) + 1
               /\ pubLog'[Len(pubLog')].bus = "agent"
               /\ pubLog'[Len(pubLog')].topic = agentCalls[a].orgId
               /\ pubLog'[Len(pubLog')].event =
                     [type |-> "conv_updated", contactId |-> agentCalls[a].id,
                      convStatus |-> "open",
                      assignedToId |-> agentCalls[a].contact.assignedToId]
               /\ contacts' = contacts]_vars

\* C31 witness: a resolved contact assigned to agent u1 was opened and the
\* call has ended: the contact is open, still assigned to u1, and the one
\* event published says so.
C31_Witness ==
    /\ Len(pubLog) = 1
    /\ Len(agentCalls) = 1
    /\ agentCalls[1].pc = "done"
    /\ pubLog[1].event = [type |-> "conv_updated", contactId |-> 1,
                          convStatus |-> "open", assignedToId |-> "u1"]
    /\ Len(contacts) = 1
    /\ contacts[1].convStatus = "open"
    /\ contacts[1].assignedToId = "u1"
    /\ webhooks = <<>>

\* C21: an agent's outbound reply saved through POST /messages on a widget
\* channel is published as a new_message event on the organization topic as
\* well as on the contact topic.
C21_ReplyOnBothTopics ==
    \A c \in 1..Len(messageCalls) :
        LET call == messageCalls[c]
        IN  (/\ call.pc = "done" /\ call.savedMsg # 0
             /\ messages[call.savedMsg].direction = "outbound"
             /\ messages[call.savedMsg].channelId \in ApiChannelIds)
            => /\ WidgetPublishesOf(call.savedMsg) # {}
               /\ \E k \in 1..Len(pubLog) :
                     /\ pubLog[k].bus = "agent"
                     /\ pubLog[k].topic = call.orgId
                     /\ pubLog[k].event.type = "new_message"
                     /\ pubLog[k].event.message.id = call.savedMsg

----------------------------------------------------------------------------
(* Properties of the lead webhook *)

\* the entry of delivery h has passed the handler's checks
LeadProcessed(h) == leadHooks[h].orgId # Null

\* C14: for an organization with a configured secret, an entry is processed
\* only after the signature header has been verified against the HMAC of the
\* raw body: a delivery without signature header, or whose raw body is not
\* available, is rejected and never reaches the entry loop.
C14_ProcessedOnlyVerified ==
    \A h \in 1..Len(leadHooks) :
        LeadProcessed(h)
            => /\ leadHooks[h].signature # Null
               /\ rawBodyOn

\* C15: a delivery whose signature header is present and read against an
\* available raw body, and does not equal the HMAC-SHA256 hex digest of that
\* body under the organization's secret, is answered 403 and none of its
\* entries is processed.
C15_MismatchRejected ==
    \A h \in 1..Len(leadHooks) :
        (LeadProcessed(h) /\ leadHooks[h].signature # Null /\ rawBodyOn)
            => leadHooks[h].signature
                   = HmacHex(FbAppSecret(leadHooks[h].orgId),
                             leadHooks[h].leadgenId)

\* C16: after any interleaving of deliveries each lead id has at most one
\* CampaignLead row, and the deliveries of one lead id create at most one
\* Contact between them.
C16_LeadIdempotent ==
    /\ \A l1, l2 \in 1..Len(campaignLeads) :
          l1 # l2 => campaignLeads[l1].fbLeadId # campaignLeads[l2].fbLeadId
    /\ \A h1, h2 \in 1..Len(leadHooks) :
          (h1 # h2 /\ leadHooks[h1].leadgenId # Null
                /\ leadHooks[h1].leadgenId = leadHooks[h2].leadgenId)
              => ~(leadHooks[h1].created # 0 /\ leadHooks[h2].created # 0)

----------------------------------------------------------------------------
(* Auto-assignment and the inbound webhook                                  *)

\* C32: when ingestion creates a new contact in an organization with
\* auto-assignment enabled, processAutoAssignment is invoked for that contact
\* by the time the handler has answered (and its assignment is published as a
\* conv_updated event on the organization topic).
C32_NewContactAutoAssigned ==
    [][\A r \in 1..Len(webhooks) :
          (/\ webhooks[r].isNewContact
           /\ webhooks[r].pc # "done"
           /\ webhooks'[r].pc = "done"
           /\ OrgSettings(webhooks[r].organizationId).autoAssignmentEnabled)
              => \E a \in 1..Len(autoCalls') :
                    autoCalls'[a].contactId = webhooks[r].contact.id]_vars

----------------------------------------------------------------------------
(* The assignment policy on its own: any settings and rule table of the     *)
(* organization, contact tables that give the agents different loads, and   *)
(* processAutoAssignment called for any contact.                            *)

\* a contact row of the tables below
PolicyContact(orgId, channelId, convStatus, assignedToId) ==
    [organizationId |-> orgId, channelId |-> channelId, externalId |-> Null,
     convStatus |-> convStatus, assignedToId |-> assignedToId,
     phone |-> Null, name |-> <<"A", "n", "a">>]

\* contact tables: the first row is an unassigned contact; the others load
\* the agents (u1 and u3 of org1; a contact of org2 counts for its assignee)
PolicyContacts ==
    {<<PolicyContact("org1", "ch1", "pending", Null)>>,
     <<PolicyContact("org1", "ch1", "pending", Null),
       PolicyContact("org1", "ch1", "open", "u1")>>,
     <<PolicyContact("org1", "w1", "pending", Null),
       PolicyContact("org1", "ch1", "pending", "u3"),
       PolicyContact("org1", "ch1", "resolved", "u1")>>,
     <<PolicyContact("org1", Null, "pending", Null),
       PolicyContact("org2", "ch1", "open", "u1"),
       PolicyContact("org1", "ch1", "open", "u3")>>,
     <<PolicyContact("org1", "ch1", Null, Null),
       PolicyContact("org2", "ch1", "open", "u3"),
       PolicyContact("org1", "ch1", Null, "u1")>>}

InitPolicy ==
    /\ agentSubscribers = EmptyMap
    /\ widgetSubscribers = EmptyMap
    /\ agentUnsubs = <<>>
    /\ widgetUnsubs = <<>>
    /\ pubLog = <<>>
    /\ deliveries = <<>>
    /\ contacts \in PolicyContacts
    /\ messages = <<>>
    /\ webhooks = <<>>
    /\ agentCalls = <<>>
    /\ streams = <<>>
    /\ widgetCalls = <<>>
    /\ messageCalls = <<>>
    /\ leadHooks = <<>>
    /\ campaignLeads = <<>>
    /\ rawBodyOn = FALSE
    /\ assignConfig \in AssignConfigs
    /\ autoCalls = <<>>
    /\ channelStatus = InitialChannelStatus

AutoSelectStep == \E a \in 1..Len(autoCalls) : AutoSelect(a)

AutoAssignStep == \E a \in 1..Len(autoCalls) : AutoAssign(a)

NextPolicy ==
    \/ AutoArrive
    \/ DetermineArrive
    \/ AutoSelectStep
    \/ AutoAssignStep

SpecPolicy == InitPolicy /\ [][NextPolicy]_vars

\* processAutoAssignment with the agents' assign, resolve and open calls
InitAssign ==
    /\ InitPolicy
    /\ assignConfig = DefaultAssignConfig

NextAssign ==
    \/ AutoArrive
    \/ AutoSelectStep
    \/ AutoAssignStep
    \/ AgentUpdate
    \/ AgentPublishStep

SpecAssign == InitAssign /\ [][NextAssign]_vars

\* the rule conditions as the policy's contract states them
RuleMatches(rule, contact) ==
    \/ rule.conditionType = "always"
    \/ /\ rule.conditionType = "channel"
       /\ contact.channelId \in rule.channelIds

\* the active rules that match the contact and have no active matching rule
\* of greater priority above them
WinningRules(orgId, contact) ==
    LET matching == {r \in OrgSettings(orgId).rules :
                        r.active /\ RuleMatches(r, contact)}
    IN  {r \in matching : \A o \in matching : o.priority <= r.priority}

\* the agents of the organization
OrgAgents(orgId) ==
    {m.userId : m \in {m \in MemberRoles :
        m.organizationId = orgId /\ m.role = "agent"}}

\* the candidate pool under the rule with id ruleId (0: no rule matched): the
\* agents of the rule's list when the rule names a non-empty list of
\* specific agents, else all agents of the organization
CandidatePool(orgId, ruleId) ==
    LET named == UNION {r.assigneeIds : r \in {r \in OrgSettings(orgId).rules :
                            r.id = ruleId /\ r.assignTo = "specific"}}
    IN  IF named = {} THEN OrgAgents(orgId)
        ELSE OrgAgents(orgId) \cap named

\* determineAssignee answers call a in this step
Determined(a) ==
    /\ a \in 1..Len(autoCalls)
    /\ autoCalls[a].pc = "select"
    /\ autoCalls'[a].pc # "select"

C34_FirstMatchingRule ==
    [][\A a \in 1..Len(autoCalls) :
          (Determined(a) /\ OrgSettings(autoCalls[a].orgId).autoAssignmentEnabled)
              => LET winners == {r.id : r \in WinningRules(autoCalls[a].orgId,
                                                          autoCalls[a].contact)}
                 IN  IF winners = {} THEN autoCalls'[a].rule = 0
                     ELSE autoCalls'[a].rule \in winners]_vars

\* with a tag rule and a keyword rule above an 'always' rule, the 'always'
\* rule (id 3) was used and its agent u1 assigned
C34_Witness ==
    /\ assignConfig.autoAssignmentEnabled
    /\ Rule(1, TRUE, 5, "tag", {}, "specific", {"u3"}) \in assignConfig.rules
    /\ \E a \in 1..Len(autoCalls) :
          /\ autoCalls[a].pc = "done" /\ autoCalls[a].assigned
          /\ autoCalls[a].rule = 3
          /\ autoCalls[a].assigneeId = "u1"
    /\ \E a \in 1..Len(autoCalls) :
          /\ autoCalls[a].pc = "done" /\ autoCalls[a].direct
          /\ autoCalls[a].rule = 3

\* the contacts assigned to the user that are open or pending
ActiveLoad(userId) ==
    Cardinality({c \in 1..Len(contacts) :
        contacts[c].assignedToId = userId
            /\ (contacts[c].convStatus = "open"
                   \/ contacts[c].convStatus = "pending")})

\* C35: under the round-robin strategy, and under load-balancing, the agent
\* determineAssignee returns is the candidate with the fewest assigned
\* contacts in status open or pending, and among candidates of equal load
\* the one that comes first in the candidate list.
C35_FewestLoadFirst ==
    [][\A a \in 1..Len(autoCalls) :
          (/\ Determined(a)
           /\ OrgSettings(autoCalls[a].orgId).autoAssignmentEnabled
           /\ OrgSettings(autoCalls[a].orgId).autoAssignmentStrategy
                  \in {"round-robin", "load-balancing"}
           /\ autoCalls'[a].agents # <<>>)
              => LET agents == autoCalls'[a].agents
                 IN  \E i \in 1..Len(agents) :
                        /\ autoCalls'[a].assigneeId = agents[i]
                        /\ \A j \in 1..Len(agents) :
                              /\ ActiveLoad(agents[j]) >= ActiveLoad(agents[i])
                              /\ ActiveLoad(agents[j]) = ActiveLoad(agents[i])
                                    => j >= i]_vars

\* round-robin: with the candidates u3, u1 both without load the first, u3,
\* was assigned; a later call with the same list chose u1, whose load was
\* then the smaller
C35_Witness ==
    /\ assignConfig.autoAssignmentEnabled
    /\ assignConfig.autoAssignmentStrategy = "round-robin"
    /\ Len(autoCalls) = 2
    /\ autoCalls[1].assigned
    /\ autoCalls[1].agents = <<"u3", "u1">>
    /\ autoCalls[1].assigneeId = "u3"
    /\ autoCalls[2].pc = "done"
    /\ autoCalls[2].agents = <<"u3", "u1">>
    /\ autoCalls[2].assigneeId = "u1"
    /\ ActiveLoad("u3") = 1
    /\ ActiveLoad("u1") = 0

\* C37: processAutoAssignment assigns only unassigned contacts: a contact
\* that has an assignedToId when auto-assignment writes its result, also when
\* an agent assigned it after processAutoAssignment had read it, keeps the
\* assignedToId it had.
C37_AssignedContactKept ==
    [][\A a \in 1..Len(autoCalls) :
          (autoCalls[a].pc = "assign" /\ autoCalls'[a].pc = "done")
              => LET id == autoCalls[a].contactId
                 IN  contacts[id].assignedToId # Null
                        => contacts'[id].assignedToId = contacts[id].assignedToId]_vars

\* C36: every conv_updated event published on an organization topic carries
\* the convStatus and the assignedToId the contact's row holds at the moment
\* of publication, the inbound webhook's event included when an agent's
\* assign, open or resolve commits between the handler's read and its publish.
C36_EventCarriesRowState ==
    [][\A p \in 1..Len(pubLog') :
          (p > Len(pubLog) /\ pubLog'[p].event.type = "conv_updated")
              => LET e == pubLog'[p].event
                 IN  /\ e.convStatus = contacts'[e.contactId].convStatus
                     /\ e.assignedToId = contacts'[e.contactId].assignedToId]_vars

----------------------------------------------------------------------------
(* POST /messages and internal notes                                        *)

\* C38: an internal note is never delivered to a widget visitor: POST
\* /messages publishes nothing on the contact topic for a message of type
\* note, whatever its direction and channelId.
C38_NoteNotPublished ==
    \A k \in 1..Len(pubLog) :
        pubLog[k].bus = "widget"
            => /\ pubLog[k].event.type # "note"
               /\ messages[pubLog[k].event.id].type # "note"

----------------------------------------------------------------------------
(* The WhatsApp webhook and Channel.status.  The deliveries here carry an    *)
(* event kind for which the handler has no branch after the status update,  *)
(* so the update is all the handler does before it answers 200.             *)

\* body.event after normalisation
StateEventKinds == {"CONNECTION_UPDATE", "PRESENCE_UPDATE", "QRCODE_UPDATED"}

\* data.state: absent, the three states of the table, another text
InstanceStates == {Null, "open", "connecting", "close", "refused"}

\* const stateToStatus = { open: 'connected', connecting: 'connecting',
\* close: 'disconnected' }; stateToStatus[dataObj?.state ?? '']
stateToStatus(state) ==
    CASE state = "open" -> "connected"
      [] state = "connecting" -> "connecting"
      [] state = "close" -> "disconnected"
      [] OTHER -> Null

\* the delivery arrives and the channel of body.instance is found;
\* if (newStatus) the handler goes on to channel.update, else it answers 200
WaStateArrive ==
    \E ch \in Channels, event \in StateEventKinds, state \in InstanceStates :
        /\ NumRequests < MaxRequests
        /\ webhooks' = Append(webhooks,
               [pc |-> IF stateToStatus(state) # Null THEN "updateChannel"
                       ELSE "done",
                event |-> event, state |-> state, channelId |-> ch.id,
                reply |-> IF stateToStatus(state) # Null THEN 0 ELSE 200])
        /\ UNCHANGED <<registryVars, pubLog, deliveries, contacts, messages,
                       agentCalls, clientVars, leadVars, adminVars>>

\* prisma.channel.update({ where: { id: channel.id },
\* data: { status: newStatus, config } }), then the answer 200
WaUpdateChannel(r) ==
    LET w == webhooks[r]
    IN  /\ w.pc = "updateChannel"
        /\ channelStatus' = [channelStatus EXCEPT
               ![w.channelId] = stateToStatus(w.state)]
        /\ webhooks' = [webhooks EXCEPT ![r].pc = "done", ![r].reply = 200]
        /\ UNCHANGED <<registryVars, pubLog, deliveries, contacts, messages,
                       agentCalls, clientVars, leadVars, assignConfig,
                       autoCalls>>

WaUpdateChannelStep == \E r \in 1..Len(webhooks) : WaUpdateChannel(r)

\* the channel starts in any status
InitChannel ==
    /\ InitBus
    /\ channelStatus \in [{ch.id : ch \in Channels} ->
                             {"connected", "connecting", "disconnected"}]

NextChannel ==
    \/ WaStateArrive
    \/ WaUpdateChannelStep

SpecChannel == InitChannel /\ [][NextChannel]_vars

\* C39: the webhook changes a channel's status only for a connection-state
\* event, mapping state open to connected, connecting to connecting and close
\* to disconnected; any other state value and any other event kind leave the
\* channel's status unchanged.
C39_StatusOnlyOnConnectionUpdate ==
    [][\A r \in 1..Len(webhooks) :
          (webhooks[r].pc # "done" /\ webhooks'[r].pc = "done")
              => LET w == webhooks[r]
                 IN  channelStatus'[w.channelId] =
                        IF w.event = "CONNECTION_UPDATE"
                              /\ w.state \in {"open", "connecting", "close"}
                        THEN (CASE w.state = "open" -> "connected"
                                [] w.state = "connecting" -> "connecting"
                                [] w.state = "close" -> "disconnected")
                        ELSE channelStatus[w.channelId]]_vars

----------------------------------------------------------------------------
(* The unsubscribe closures of both buses                                   *)

\* C40: an unsubscribe function removes exactly the registration its own
\* subscribe call created: the registration of every subscribe call whose
\* unsubscribe function was not called stays in place, also when two
\* registrations were made with the same callback and when an unsubscribe
\* function is called a second time after a later subscriber re-created the
\* topic.
C40_UnsubscribeRemovesOwnOnly ==
    /\ \A h \in 1..Len(agentUnsubs) :
          ~agentUnsubs[h].called
              => SetHas(Registered(agentSubscribers, agentUnsubs[h].orgId),
                        agentUnsubs[h].subscriber)
    /\ \A h \in 1..Len(widgetUnsubs) :
          ~widgetUnsubs[h].called
              => SetHas(Registered(widgetSubscribers, widgetUnsubs[h].contactId),
                        widgetUnsubs[h].cb)

====
